---- MODULE Spec2Model ----
(***************************************************************************)
(* NetFlow collector (netflow_collector.cpp): the probe receive loop       *)
(* receiveData and the NetFlow v9 decoder processNetFlowV9Data, one        *)
(* thread per probe, modelled at the level of the bytes of each datagram.  *)
(*                                                                         *)
(* Offsets are byte offsets from the start of the probe's receive buffer   *)
(* (the code's char* minus buffer); buffer[p][o + 1] is the byte at        *)
(* offset o.                                                               *)
(***************************************************************************)
EXTENDS Integers, Sequences, FiniteSets, TLC

VARIABLES
    pc,            \* per probe: position of its thread in receiveData / processNetFlowV9Data
    buffer,        \* per probe: char buffer[65536] of receiveData
    n,             \* per probe: return value of recvfrom
    source,        \* per probe: cliaddr.sin_addr of the last datagram (4 bytes)
    ptr,           \* per probe: processNetFlowV9Data ptr (offset)
    length,        \* per probe: processNetFlowV9Data length (ssize_t, may be negative)
    flowsetID,     \* per probe: flowsetID of the FlowSet being walked
    flowsetLength, \* per probe: flowsetLength of the FlowSet being walked
    templatePtr,   \* per probe: templatePtr (offset)
    recordPtr,     \* per probe: recordPtr (offset)
    junk,          \* per probe: the indeterminate content of the stack slot of FlowData's scalars
    templates,     \* per probe: SondaRuntime::templates
    writes,        \* per probe: the insertFlowData calls made so far, in call order
    diag,          \* per probe: diagnostics written (std::cerr / syslog) for the datagram in the buffer
    cur,           \* per probe: which datagram of Datagrams is in the buffer (0: none)
    tplBefore,     \* per probe: templates when the datagram in the buffer was received
    wBefore,       \* per probe: Len(writes) when the datagram in the buffer was received
    prev,          \* per probe: which datagram the previous pass of the loop received (0: none)
    tplHead,       \* per probe: templates when the header of the FlowSet being walked was read
    readMax,       \* per probe: 1 + the highest buffer offset read for the datagram in the buffer
    received,      \* datagrams received so far, over all probes
    run,           \* which run of Runs this is: command line, INI file and environment
    mainPc,        \* position of main
    exitCode,      \* what main returned (NotExited: it has not)
    sondaConfigs,  \* sondaConfigs: the probe sections loadConfig accepted, in order
    setup,         \* outcome of setupSockets for each probe it reached, in order
    lost,          \* per probe: recvfrom on its socket fails from now on
    diagFile,      \* the file of --diag: the parts appended to it, in order
    diagFileMutex, \* diagFileMutex: the probe whose thread holds it (0: free)
    crashed,       \* the process died on a read outside the receive buffer
    dbHandler      \* one DatabaseHandler taken by itself: its pointer, its handles, its storage

vars == <<pc, buffer, n, source, ptr, length, flowsetID, flowsetLength, templatePtr,
          recordPtr, junk, templates, writes, diag, cur, tplBefore, wBefore, prev,
          tplHead, readMax, received, run, mainPc, exitCode, sondaConfigs, setup,
          lost, diagFile, diagFileMutex, crashed, dbHandler>>

----------------------------------------------------------------------------
(* Bounds of the model *)

\* sizeof(buffer) in receiveData is 65536; the model keeps a shorter buffer.
BufSize == 52
\* datagrams received in one run, over all probes
MaxDatagrams == 2
\* insertFlowData calls kept per probe (later calls are made but not kept)
MaxWrites == 8
\* diagnostics kept per datagram
MaxDiag == 4
\* insertFlowData calls that a failing sink fails
MaxFailures == 1
\* calls made on the handler that is taken by itself
MaxCalls == 3

(* Program constants *)

\* sizeof(NetFlowV9Header)
HeaderSize == 20
\* sizeof(NetFlowV9FlowSetHeader)
FlowSetHeaderSize == 4
\* sizeof(NetFlowV9TemplateRecord)
TemplateRecordSize == 4
\* sizeof(NetFlowV9FieldSpecifier)
FieldSpecifierSize == 4

\* The probes of the configuration: sondaRuntimes, one receiveData thread each.
Probes == {1, 2}
\* SondaConfig::name of each probe
ProbeName == <<"sonda1", "sonda2">>
\* SondaConfig::filter_address of each probe (listen_address of the .ini file)
FilterAddress == <<"", "10.0.0.1">>

\* A byte of the receive buffer that nothing has written yet.
Uninit == 0 - 1
\* What a read of an uninitialised byte, or of a byte past the end of the receive
\* buffer, may yield.
Garbage == {0, 1}
\* What an uninitialised scalar member of FlowData may hold.
Indeterminate == {0, 7}

----------------------------------------------------------------------------
(* Helpers *)

Max(a, b) == IF a >= b THEN a ELSE b

RECURSIVE Flatten(_)
Flatten(ss) == IF ss = <<>> THEN <<>> ELSE Head(ss) \o Flatten(Tail(ss))

RECURSIVE SumLen(_)
\* recordLength: the sum of field.length over the template's fields
SumLen(fields) == IF fields = <<>> THEN 0 ELSE Head(fields).length + SumLen(Tail(fields))

Digit(d) == <<"0", "1", "2", "3", "4", "5", "6", "7", "8", "9">>[d + 1]

RECURSIVE Str(_)
\* operator<< / %d of a non-negative integer
Str(v) == IF v < 10 THEN Digit(v) ELSE Str(v \div 10) \o Digit(v % 10)

\* inet_ntop(AF_INET, ...) / inet_ntoa: the dotted-quad text of four address bytes
DottedQuad(a) == Str(a[1]) \o "." \o Str(a[2]) \o "." \o Str(a[3]) \o "." \o Str(a[4])

\* the byte at offset off; g is what an uninitialised byte of the buffer, or
\* memory past its end, yields
ByteAt(buf, off, g) ==
    IF off < BufSize /\ buf[off + 1] # Uninit THEN buf[off + 1] ELSE g

\* ntohs(*(uint16_t*)(buffer + off))
U16At(buf, off, g) == ByteAt(buf, off, g) * 256 + ByteAt(buf, off + 1, g)

\* ntohl(*(uint32_t*)(buffer + off))
U32At(buf, off, g) ==
    ((ByteAt(buf, off, g) * 256 + ByteAt(buf, off + 1, g)) * 256
        + ByteAt(buf, off + 2, g)) * 256 + ByteAt(buf, off + 3, g)

\* the four bytes taken last first (used to compare with)
AddrAtReversed(buf, off, g) ==
    <<ByteAt(buf, off + 3, g), ByteAt(buf, off + 2, g), ByteAt(buf, off + 1, g),
      ByteAt(buf, off, g)>>

\* the four bytes *(struct in_addr*)(buffer + off)
AddrAt(buf, off, g) ==
    <<ByteAt(buf, off, g), ByteAt(buf, off + 1, g), ByteAt(buf, off + 2, g),
      ByteAt(buf, off + 3, g)>>

----------------------------------------------------------------------------
(* The exporter's side: datagrams as an exporter lays them out, and their   *)
(* bytes on the wire (big-endian, RFC 3954 layout of the packed structs).   *)

F(t, l) == [type |-> t, length |-> l]
\* a template record: template_id, field_count as written, the field specifiers that follow
Tpl(id, cnt, fields) == [id |-> id, cnt |-> cnt, fields |-> fields]
\* a FlowSet: flowset_id, length as written, template records, then raw body bytes
FS(id, len, recs, body) == [id |-> id, len |-> len, recs |-> recs, body |-> body]
\* a datagram: version, FlowSets, raw bytes after the last FlowSet, bytes cut off
\* the end in transit, and the sender's address
DG(version, fs, tail, cut, src) ==
    [version |-> version, fs |-> fs, tail |-> tail, cut |-> cut, src |-> src]

EncU16(v) == <<v \div 256, v % 256>>
EncField(f) == EncU16(f.type) \o EncU16(f.length)
EncTpl(r) ==
    EncU16(r.id) \o EncU16(r.cnt) \o Flatten([i \in 1..Len(r.fields) |-> EncField(r.fields[i])])
EncFSBody(f) == Flatten([i \in 1..Len(f.recs) |-> EncTpl(f.recs[i])]) \o f.body
EncFS(f) == EncU16(f.id) \o EncU16(f.len) \o EncFSBody(f)
EncHeader(version) == EncU16(version) \o EncU16(1) \o [i \in 1..16 |-> 0]
EncAll(d) == EncHeader(d.version) \o Flatten([i \in 1..Len(d.fs) |-> EncFS(d.fs[i])]) \o d.tail
\* the bytes recvfrom delivers
Wire(d) == SubSeq(EncAll(d), 1, Len(EncAll(d)) - d.cut)

S1 == <<10, 0, 0, 1>>
S2 == <<10, 0, 0, 2>>

FA == <<F(4, 1)>>
FB == <<F(7, 2), F(4, 1)>>
FZ == <<F(4, 0)>>
Data4 == <<6, 17, 1, 58>>
Data8 == <<0, 80, 6, 1, 187, 17, 0, 0>>

\* a byte count 8 bytes wide and a packet count 2 bytes wide
FW == <<F(1, 8), F(2, 2)>>
\* a field of a type the decoder does not know, a port 4 bytes wide, a protocol
FU == <<F(99, 3), F(7, 4), F(4, 1)>>
\* templates of the natural widths
FIP == <<F(8, 4), F(12, 4)>>
FCnt == <<F(1, 4), F(2, 4)>>
FPorts == <<F(11, 2), F(7, 2)>>
FProto == <<F(11, 2), F(7, 2), F(4, 1)>>

\* a flow record as the exporter holds it
Rec(sip, dip, sport, dport, proto, packets, bytes) ==
    [SourceIP |-> sip, DestinationIP |-> dip, SourcePort |-> sport,
     DestinationPort |-> dport, Protocol |-> proto, PacketCount |-> packets,
     ByteCount |-> bytes]

\* the four bytes of an address the exporter knows by its text
InetAton(text) ==
    CASE text = "10.0.0.1"    -> <<10, 0, 0, 1>>
      [] text = "192.168.1.20" -> <<192, 168, 1, 20>>
      [] text = "0.0.0.0"      -> <<0, 0, 0, 0>>

EncU32(v) == EncU16(v \div 65536) \o EncU16(v % 65536)

\* the bytes of one field of a record, for a field of its natural width
EncValue(r, f) ==
    CASE f.type = 8  -> InetAton(r.SourceIP)
      [] f.type = 12 -> InetAton(r.DestinationIP)
      [] f.type = 7  -> EncU16(r.SourcePort)
      [] f.type = 11 -> EncU16(r.DestinationPort)
      [] f.type = 4  -> <<r.Protocol>>
      [] f.type = 2  -> EncU32(r.PacketCount)
      [] f.type = 1  -> EncU32(r.ByteCount)

EncRecord(r, fields) == Flatten([i \in 1..Len(fields) |-> EncValue(r, fields[i])])

\* the body of a data FlowSet: the records back to back
EncRecords(recs, fields) == Flatten([i \in 1..Len(recs) |-> EncRecord(recs[i], fields)])

\* the record sets the exporter sends under FIP, FCnt, FPorts and FProto
RIP == <<Rec("10.0.0.1", "192.168.1.20", 0, 0, 0, 0, 0)>>
RCnt == <<Rec("0.0.0.0", "0.0.0.0", 0, 0, 0, 2, 16778716)>>
RPorts == <<Rec("0.0.0.0", "0.0.0.0", 443, 51514, 0, 0, 0),
            Rec("0.0.0.0", "0.0.0.0", 256, 1, 0, 0, 0),
            Rec("0.0.0.0", "0.0.0.0", 80, 80, 0, 0, 0)>>
RProto == <<Rec("0.0.0.0", "0.0.0.0", 53, 4660, 17, 0, 0)>>

\* the zero bytes that bring a body of len bytes, of records width bytes wide,
\* to a 4-byte boundary; none where they would be as long as a record
Padding(len, width) ==
    LET pad == (4 - (len % 4)) % 4 IN
    IF pad < width THEN [i \in 1..pad |-> 0] ELSE <<>>

\* a template FlowSet for 256 and a data FlowSet of recs under it
Encoded(fields, recs) ==
    LET body == EncRecords(recs, fields) \o Padding(Len(EncRecords(recs, fields)), SumLen(fields)) IN
    <<FS(0, 8 + 4 * Len(fields), <<Tpl(256, Len(fields), fields)>>, <<>>),
      FS(256, 4 + Len(body), <<>>, body)>>

\* The datagrams the network may deliver to a probe.
Datagrams == <<
    \* 1: template 256 := FA
    DG(9, <<FS(0, 12, <<Tpl(256, 1, FA)>>, <<>>)>>, <<>>, 0, S1),
    \* 2: template 256 := FB, from the other exporter address
    DG(9, <<FS(0, 16, <<Tpl(256, 2, FB)>>, <<>>)>>, <<>>, 0, S2),
    \* 3: data for template 256
    DG(9, <<FS(256, 8, <<>>, Data4)>>, <<>>, 0, S1),
    \* 4: template 256 := FB, then data for it
    DG(9, <<FS(0, 16, <<Tpl(256, 2, FB)>>, <<>>), FS(256, 12, <<>>, Data8)>>, <<>>, 0, S1),
    \* 5: data for template 256, then template 256 := FA
    DG(9, <<FS(256, 8, <<>>, Data4), FS(0, 12, <<Tpl(256, 1, FA)>>, <<>>)>>, <<>>, 0, S1),
    \* 6: data for template 257, then data for template 256
    DG(9, <<FS(257, 6, <<>>, <<1, 2>>), FS(256, 6, <<>>, <<6, 17>>)>>, <<>>, 0, S1),
    \* 7: data for 256, then a FlowSet whose length says 4096
    DG(9, <<FS(256, 6, <<>>, <<6, 17>>), FS(0, 4096, <<Tpl(257, 1, FA)>>, <<>>)>>,
       <<>>, 0, S1),
    \* 8: a template FlowSet whose length says 0
    DG(9, <<FS(0, 0, <<>>, <<>>)>>, <<>>, 0, S1),
    \* 9: template 257 := FZ (width 0), then data for it
    DG(9, <<FS(0, 12, <<Tpl(257, 1, FZ)>>, <<>>), FS(257, 5, <<>>, <<9>>)>>, <<>>, 0, S1),
    \* 10: IPFIX
    DG(10, <<>>, <<>>, 0, S1),
    \* 11: NetFlow v5
    DG(5, <<>>, <<>>, 0, S1),
    \* 12: two bytes only: the version
    DG(9, <<>>, <<>>, 18, S1),
    \* 13: template 256 := FA followed by two padding bytes 01 00, then an
    \*     options FlowSet
    DG(9, <<FS(0, 14, <<Tpl(256, 1, FA)>>, <<1, 0>>), FS(1, 8, <<>>, <<0, 4, 0, 0>>)>>,
       <<>>, 0, S1),
    \* 14: a template record announcing 8 fields with 1 in the FlowSet
    DG(9, <<FS(0, 12, <<Tpl(257, 8, FA)>>, <<>>)>>, <<>>, 0, S1),
    \* 15: template 256 := FA, followed by three bytes
    DG(9, <<FS(0, 12, <<Tpl(256, 1, FA)>>, <<>>)>>, <<0, 0, 0>>, 0, S1),
    \* 16: template 256 := FA followed by three padding bytes of zero, then
    \*     data for it
    DG(9, <<FS(0, 15, <<Tpl(256, 1, FA)>>, <<0, 0, 0>>), FS(256, 7, <<>>, <<6, 17, 1>>)>>,
       <<>>, 0, S1),
    \* 17: a template record with id 255, and one with no field
    DG(9, <<FS(0, 16, <<Tpl(255, 1, FA), Tpl(258, 0, <<>>)>>, <<>>)>>, <<>>, 0, S1),
    \* 18: template 256 := FA with one padding byte of zero, twice, then data
    \*     for it
    DG(9, <<FS(0, 13, <<Tpl(256, 1, FA)>>, <<0>>), FS(0, 13, <<Tpl(256, 1, FA)>>, <<0>>),
            FS(256, 6, <<>>, <<6, 17>>)>>, <<>>, 0, S1),
    \* 19: one byte only
    DG(9, <<>>, <<>>, 19, S1),
    \* 20: template 256 := FW, then one record: byte count 00 00 00 01 00 00 05 DC,
    \*     packet count 00 02, and two bytes of padding
    DG(9, <<FS(0, 16, <<Tpl(256, 2, FW)>>, <<>>),
            FS(256, 16, <<>>, <<0, 0, 0, 1, 0, 0, 5, 220, 0, 2, 0, 0>>)>>, <<>>, 0, S1),
    \* 21: template 256 := FU, then one record: three bytes of type 99, port
    \*     443 in the first two of four bytes, protocol 6
    DG(9, <<FS(0, 20, <<Tpl(256, 3, FU)>>, <<>>),
            FS(256, 12, <<>>, <<1, 2, 3, 1, 187, 0, 0, 6>>)>>, <<>>, 0, S1),
    \* 22, 23, 24: record sets encoded under templates of the natural widths
    DG(9, Encoded(FIP, RIP), <<>>, 0, S1),
    DG(9, Encoded(FCnt, RCnt), <<>>, 0, S1),
    DG(9, Encoded(FPorts, RPorts), <<>>, 0, S1),
    \* 25: template 256 := FProto and the record of RProto, three bytes of padding
    DG(9, Encoded(FProto, RProto), <<>>, 0, S1)
>>

\* The runs of the program: the datagrams sent to each probe's port, and the
\* probes whose environment fails (calls of the sink, the socket).
\* the characters of a value of the INI file
Chars2055 == <<"2", "0", "5", "5">>
Chars2056 == <<"2", "0", "5", "6">>

\* an INI file: whether it can be opened, [SondeCount] count, and the name and
\* port values of the [SondaN] sections (a key that is absent has no value)
Ini(readable, count, name1, port1, name2, port2) ==
    [readable |-> readable, count |-> count,
     sonda |-> <<[name |-> name1, port |-> port1], [name |-> name2, port |-> port2]>>]

IniGood == Ini(TRUE, <<"2">>, "sonda1", Chars2055, "sonda2", Chars2056)

Runs == <<
    \* 1: a sound environment; probe 1 is sent the first half of the datagrams
    [traffic |-> <<1..9, {2, 4}>>, failing |-> {}, diag |-> "", ini |-> IniGood],
    \* 2: a sound environment; probe 1 is sent the second half, after datagram 1
    [traffic |-> <<{1} \cup 10..19, {2}>>, failing |-> {}, diag |-> "",
     ini |-> IniGood],
    \* 3: a sound environment; probe 1 is sent the datagrams about the fields
    [traffic |-> <<20..Len(Datagrams), {2}>>, failing |-> {}, diag |-> "",
     ini |-> IniGood],
    \* 4: --diag=diag.log; the sink, the socket and the files of probe 2 fail
    [traffic |-> <<{3}, {4}>>, failing |-> {2}, diag |-> "diag.log", ini |-> IniGood],
    \* 5: [Sonda2] has no name
    [traffic |-> <<{3}, {4}>>, failing |-> {}, diag |-> "",
     ini |-> Ini(TRUE, <<"2">>, "sonda1", Chars2055, "", Chars2056)],
    \* 6: the port of [Sonda1] is not a number, the one of [Sonda2] is 0
    [traffic |-> <<{3}, {4}>>, failing |-> {}, diag |-> "",
     ini |-> Ini(TRUE, <<"2">>, "sonda1", <<"x", "1">>, "sonda2", <<"0">>)],
    \* 7: the port of [Sonda1] is -1, the one of [Sonda2] is 00
    [traffic |-> <<{3}, {4}>>, failing |-> {}, diag |-> "diag.log",
     ini |-> Ini(TRUE, <<"2">>, "sonda1", <<"-", "1">>, "sonda2", <<"0", "0">>)],
    \* 8: the INI file cannot be opened
    [traffic |-> <<{3}, {4}>>, failing |-> {}, diag |-> "",
     ini |-> Ini(FALSE, <<>>, "", <<>>, "", <<>>)]
>>

Traffic == Runs[run].traffic
\* --diag=FILE of the command line ("": not given)
diagFilePath == Runs[run].diag

NoDatagram == [k |-> 0, seq |-> 0]
\* the datagram in probe p's buffer, as its exporter laid it out
Cur(p) == Datagrams[cur[p].k]

----------------------------------------------------------------------------
(* FlowData and the field switch of processNetFlowV9Data *)

\* FlowData flowData; the strings are empty, the scalar members are not initialised
NewFlowData(j) ==
    [SourceIP |-> "", DestinationIP |-> "", SourcePort |-> j, DestinationPort |-> j,
     Protocol |-> j, PacketCount |-> j, ByteCount |-> j, FlowStart |-> "", FlowEnd |-> "",
     SourceSond |-> ""]

\* one case of switch (field.type): the read at recordPtr + offset
ProjectField(fd, type, buf, at, g) ==
    CASE type = 8  -> [fd EXCEPT !.SourceIP = DottedQuad(AddrAt(buf, at, g))]
      [] type = 12 -> [fd EXCEPT !.DestinationIP = DottedQuad(AddrAt(buf, at, g))]
      [] type = 7  -> [fd EXCEPT !.SourcePort = U16At(buf, at, g)]
      [] type = 11 -> [fd EXCEPT !.DestinationPort = U16At(buf, at, g)]
      [] type = 4  -> [fd EXCEPT !.Protocol = ByteAt(buf, at, g)]
      [] type = 2  -> [fd EXCEPT !.PacketCount = U32At(buf, at, g)]
      [] type = 1  -> [fd EXCEPT !.ByteCount = U32At(buf, at, g)]
      [] OTHER     -> fd

\* the bytes the case of switch (field.type) reads, whatever field.length says
CastSize(type) ==
    CASE type \in {8, 12, 2, 1} -> 4
      [] type \in {7, 11}       -> 2
      [] type = 4               -> 1
      [] OTHER                  -> 0

\* an offset advanced by the size of the type read (used to compare with)
NextOffsetBySize(offset, field) == offset + CastSize(field.type)

\* offset += field.length
NextOffset(offset, field) == offset + field.length

RECURSIVE ProjectFields(_, _, _, _, _, _)
\* for (auto& field : fields) { switch ...; offset += field.length; }
ProjectFields(fields, i, buf, at, g, fd) ==
    IF i > Len(fields) THEN fd
    ELSE ProjectFields(fields, i + 1, buf, NextOffset(at, fields[i]), g,
                       ProjectField(fd, fields[i].type, buf, at, g))

RECURSIVE FieldsExtent(_, _, _)
\* 1 + the highest offset the field loop reads for a record at offset at (0 if none)
FieldsExtent(fields, i, at) ==
    IF i > Len(fields) THEN 0
    ELSE Max(IF CastSize(fields[i].type) = 0 THEN 0 ELSE at + CastSize(fields[i].type),
             FieldsExtent(fields, i + 1, at + fields[i].length))

\* the record the loop body hands to insertFlowData
Materialize(p, fields, buf, at, g, j) ==
    [ProjectFields(fields, 1, buf, at, g, NewFlowData(j)) EXCEPT !.SourceSond = ProbeName[p]]

----------------------------------------------------------------------------
(* Template records *)

\* the template record at offset tp: template_id, field_count, the field specifiers
TemplateIDAt(buf, tp, g) == U16At(buf, tp, g)
FieldCountAt(buf, tp, g) == U16At(buf, tp + 2, g)
FieldsAt(buf, tp, g) ==
    [i \in 1..FieldCountAt(buf, tp, g) |->
        F(U16At(buf, tp + TemplateRecordSize + FieldSpecifierSize * (i - 1), g),
          U16At(buf, tp + TemplateRecordSize + FieldSpecifierSize * (i - 1) + 2, g))]
\* templatePtr after the record
TemplateRecordEnd(buf, tp, g) ==
    tp + TemplateRecordSize + FieldSpecifierSize * FieldCountAt(buf, tp, g)

\* sonda.templates[templateID] = fields
Install(tbl, id, fields) ==
    [x \in DOMAIN tbl \cup {id} |-> IF x = id THEN fields ELSE tbl[x]]

----------------------------------------------------------------------------
(* State shared by the actions *)

\* size_t flowsetDataLength = flowsetLength - sizeof(NetFlowV9FlowSetHeader).  For
\* flowsetLength < 4 the size_t value is this number modulo 2^64; it is only ever
\* added to a 64-bit pointer or subtracted from the 64-bit length, where the
\* modulus cancels, so the model keeps the signed number.
FlowsetDataLength(len) == len - FlowSetHeaderSize

\* ptr + flowsetDataLength, with ptr already past the FlowSet header
FlowsetEnd(p) == ptr[p] + FlowsetDataLength(flowsetLength[p])

RECURSIVE Merge(_, _)
\* all the tables of the probes ps laid over each other
Merge(ps, tbl) ==
    IF ps = {} THEN tbl
    ELSE LET q == CHOOSE x \in ps : TRUE IN
         Merge(ps \ {q}, [x \in DOMAIN tbl \cup DOMAIN templates[q] |->
                             IF x \in DOMAIN templates[q] THEN templates[q][x] ELSE tbl[x]])

\* Table, were the templates kept in one cache for all probes
TableOfAll(p) == Merge(Probes \ {p}, templates[p])

\* sonda.templates, the table the decoder of probe p works on
Table(p) == templates[p]

\* Accepted, without the test for an empty filter_address
AcceptedIfEqual(p) == FilterAddress[p] = DottedQuad(source[p])

\* bool accepted of receiveData
Accepted(p) == FilterAddress[p] = "" \/ FilterAddress[p] = DottedQuad(source[p])

\* Insert, the sink putting the newest record first
InsertFirst(w, fd, seq, at, ok) ==
    IF Len(w) < MaxWrites
    THEN <<[rec |-> fd, seq |-> seq, at |-> at, ok |-> ok]>> \o w
    ELSE w

\* Insert, a failed call being made again
InsertAgain(w, fd, seq, at, ok) ==
    IF Len(w) < MaxWrites
    THEN IF ok THEN Append(w, [rec |-> fd, seq |-> seq, at |-> at, ok |-> ok])
         ELSE w \o <<[rec |-> fd, seq |-> seq, at |-> at, ok |-> ok],
                     [rec |-> fd, seq |-> seq, at |-> at, ok |-> ok]>>
    ELSE w

\* sonda.dbHandler->insertFlowData(flowData), the call as the sink sees it, ok
\* being what the sink returns
Insert(w, fd, seq, at, ok) ==
    IF Len(w) < MaxWrites
    THEN Append(w, [rec |-> fd, seq |-> seq, at |-> at, ok |-> ok])
    ELSE w

\* the calls of w that the sink failed
Failed(w) == {i \in 1..Len(w) : ~w[i].ok}

\* The probes whose sink fails calls
FailingSinks == Runs[run].failing

\* the sink of probe p may fail the next call
MayFail(p) == p \in FailingSinks /\ Cardinality(Failed(writes[p])) < MaxFailures

\* std::cerr << ... ; syslog(LOG_ERR, ...)
Log(d, msg) == IF Len(d) < MaxDiag THEN Append(d, msg) ELSE d

Locals == <<ptr, length, flowsetID, flowsetLength, templatePtr, recordPtr, junk>>
Ghosts == <<cur, tplBefore, wBefore, prev>>
\* what neither recvfrom's return nor the decoder changes
Startup == <<run, mainPc, exitCode, sondaConfigs, setup>>
Outside == <<Startup, lost, diagFile, diagFileMutex, dbHandler>>

\* main has not returned
NotExited == 0 - 1

\* nothing has run yet
Quiet ==
    /\ pc = [p \in Probes |-> "off"]
    /\ buffer = [p \in Probes |-> [i \in 1..BufSize |-> Uninit]]
    /\ n = [p \in Probes |-> 0]
    /\ source = [p \in Probes |-> <<0, 0, 0, 0>>]
    /\ ptr = [p \in Probes |-> 0]
    /\ length = [p \in Probes |-> 0]
    /\ flowsetID = [p \in Probes |-> 0]
    /\ flowsetLength = [p \in Probes |-> 0]
    /\ templatePtr = [p \in Probes |-> 0]
    /\ recordPtr = [p \in Probes |-> 0]
    /\ junk = [p \in Probes |-> 0]
    /\ templates = [p \in Probes |-> <<>>]
    /\ writes = [p \in Probes |-> <<>>]
    /\ diag = [p \in Probes |-> <<>>]
    /\ cur = [p \in Probes |-> NoDatagram]
    /\ tplBefore = [p \in Probes |-> <<>>]
    /\ wBefore = [p \in Probes |-> 0]
    /\ prev = [p \in Probes |-> 0]
    /\ tplHead = [p \in Probes |-> <<>>]
    /\ readMax = [p \in Probes |-> 0]
    /\ received = 0
    /\ mainPc = "load"
    /\ exitCode = NotExited
    /\ sondaConfigs = <<>>
    /\ setup = <<>>
    /\ lost = [p \in Probes |-> FALSE]
    /\ diagFile = <<>>
    /\ diagFileMutex = 0
    /\ crashed = FALSE

\* the handler of the decoder's runs is the sink of writes: none is taken by itself
NoHandler == [type |-> "none"]

Init ==
    /\ Quiet
    /\ run \in 1..Len(Runs)
    /\ dbHandler = NoHandler

----------------------------------------------------------------------------
(* main: loadConfig, setupSockets, the threads *)

IsDigit(c) == c \in {"0", "1", "2", "3", "4", "5", "6", "7", "8", "9"}
DigitValue(c) == CHOOSE d \in 0..9 : Digit(d) = c

RECURSIVE Digits(_)
\* the digits a number's text begins with
Digits(text) ==
    IF text # <<>> /\ IsDigit(Head(text)) THEN <<Head(text)>> \o Digits(Tail(text)) ELSE <<>>

RECURSIVE Value(_)
Value(ds) == IF ds = <<>> THEN 0 ELSE 10 * Value(SubSeq(ds, 1, Len(ds) - 1)) + DigitValue(ds[Len(ds)])

\* INIParser::getInteger: std::stoi of the value (an optional sign, then the
\* digits it begins with); the default when there is no value or stoi throws
GetInteger(text, defaultValue) ==
    LET signed == text # <<>> /\ Head(text) \in {"-", "+"}
        ds     == Digits(IF signed THEN Tail(text) ELSE text) IN
    IF ds = <<>> THEN defaultValue
    ELSE IF signed /\ Head(text) = "-" THEN 0 - Value(ds) ELSE Value(ds)

IniFile == Runs[run].ini

\* the SondaConfig loadConfig reads from section [Sonda i]
Sonda(i) == [name |-> IniFile.sonda[i].name, port |-> GetInteger(IniFile.sonda[i].port, 0)]

\* a section that is refused only for its name (used to compare with)
RejectedForName(sonda) == sonda.name = ""

\* if (sonda.name.empty() || sonda.port == 0)
Rejected(sonda) == sonda.name = "" \/ sonda.port = 0

sondaCount == GetInteger(IniFile.count, 0)

\* loadConfig returns true: the file is parsed and the loop over the sections
\* comes to its end
LoadConfig ==
    /\ mainPc = "load"
    /\ IniFile.readable
    /\ \A i \in 1..sondaCount : ~Rejected(Sonda(i))
    /\ sondaConfigs' = [i \in 1..sondaCount |-> Sonda(i)]
    /\ mainPc' = "diag"
    /\ UNCHANGED <<pc, buffer, n, source, Locals, templates, writes, diag, Ghosts, tplHead,
                   readMax, received, run, exitCode, setup, lost, diagFile, diagFileMutex,
                   crashed, dbHandler>>

\* loadConfig returns false, at the file or at the first section it refuses:
\* main returns 1
LoadConfigFails ==
    /\ mainPc = "load"
    /\ \/ ~IniFile.readable
       \/ \E i \in 1..sondaCount :
            /\ Rejected(Sonda(i))
            /\ \A j \in 1..(i - 1) : ~Rejected(Sonda(j))
            /\ sondaConfigs' = [j \in 1..(i - 1) |-> Sonda(j)]
    /\ ~IniFile.readable => sondaConfigs' = sondaConfigs
    /\ exitCode' = 1
    /\ mainPc' = "exit"
    /\ UNCHANGED <<pc, buffer, n, source, Locals, templates, writes, diag, Ghosts, tplHead,
                   readMax, received, run, setup, lost, diagFile, diagFileMutex, crashed, dbHandler>>

\* the environment of the process may fail
MayFailAtStart == Runs[run].failing # {}

\* --diag is not given, or the file opens for appending
DiagCheck ==
    /\ mainPc = "diag"
    /\ mainPc' = "setup"
    /\ UNCHANGED <<pc, buffer, n, source, Locals, templates, writes, diag, Ghosts, tplHead,
                   readMax, received, run, exitCode, sondaConfigs, setup, lost, diagFile,
                   diagFileMutex, crashed, dbHandler>>

\* --diag is given and the file does not open: main returns 1
DiagCheckFails ==
    /\ mainPc = "diag"
    /\ diagFilePath # ""
    /\ MayFailAtStart
    /\ exitCode' = 1
    /\ mainPc' = "exit"
    /\ UNCHANGED <<pc, buffer, n, source, Locals, templates, writes, diag, Ghosts, tplHead,
                   readMax, received, run, sondaConfigs, setup, lost, diagFile,
                   diagFileMutex, crashed, dbHandler>>

\* setupSockets, one pass of its loop: createSocket binds and the handler's
\* connect() returns true; the runtime is pushed back
SetupProbe ==
    /\ mainPc = "setup"
    /\ Len(setup) < Len(sondaConfigs)
    /\ setup' = Append(setup, "ok")
    /\ UNCHANGED <<pc, buffer, n, source, Locals, templates, writes, diag, Ghosts, tplHead,
                   readMax, received, run, mainPc, exitCode, sondaConfigs, lost, diagFile,
                   diagFileMutex, crashed, dbHandler>>

\* createSocket returns -1, or connect() returns false: setupSockets returns
\* false and main returns 1
SetupProbeFails ==
    /\ mainPc = "setup"
    /\ Len(setup) < Len(sondaConfigs)
    /\ Len(setup) + 1 \in Runs[run].failing
    /\ \E outcome \in {"nobind", "nosink"} : setup' = Append(setup, outcome)
    /\ exitCode' = 1
    /\ mainPc' = "exit"
    /\ UNCHANGED <<pc, buffer, n, source, Locals, templates, writes, diag, Ghosts, tplHead,
                   readMax, received, run, sondaConfigs, lost, diagFile, diagFileMutex,
                   crashed, dbHandler>>

\* the threads started so far
Started == {p \in Probes : pc[p] # "off"}

\* threads.emplace_back(receiveData, std::ref(sonda)), for the next runtime
StartThread ==
    /\ mainPc = "setup"
    /\ Len(setup) = Len(sondaConfigs)
    /\ Cardinality(Started) < Len(setup)
    /\ pc' = [pc EXCEPT ![Cardinality(Started) + 1] = "recv"]
    /\ UNCHANGED <<buffer, n, source, Locals, templates, writes, diag, Ghosts, tplHead,
                   readMax, received, Outside, crashed>>

Main ==
    \/ LoadConfig
    \/ LoadConfigFails
    \/ DiagCheck
    \/ DiagCheckFails
    \/ SetupProbe
    \/ SetupProbeFails
    \/ StartThread

----------------------------------------------------------------------------
(* receiveData *)

\* recvfrom returns a datagram: its bytes overwrite the start of the buffer,
\* the rest of the buffer keeps what it held
Recv(p) ==
    /\ ~crashed
    /\ pc[p] = "recv"
    /\ ~lost[p]
    /\ received < MaxDatagrams
    /\ \E k \in Traffic[p] :
         LET w == SubSeq(Wire(Datagrams[k]), 1,
                         IF Len(Wire(Datagrams[k])) < BufSize
                         THEN Len(Wire(Datagrams[k])) ELSE BufSize) IN
         /\ buffer' = [buffer EXCEPT ![p] = w \o SubSeq(buffer[p], Len(w) + 1, BufSize)]
         /\ n' = [n EXCEPT ![p] = Len(w)]
         /\ source' = [source EXCEPT ![p] = Datagrams[k].src]
         /\ cur' = [cur EXCEPT ![p] = [k |-> k, seq |-> received + 1]]
    /\ received' = received + 1
    /\ tplBefore' = [tplBefore EXCEPT ![p] = templates[p]]
    /\ wBefore' = [wBefore EXCEPT ![p] = Len(writes[p])]
    /\ readMax' = [readMax EXCEPT ![p] = 0]
    /\ diag' = [diag EXCEPT ![p] = <<>>]
    /\ pc' = [pc EXCEPT ![p] = IF diagFilePath # "" THEN "dump" ELSE "filter"]
    /\ UNCHANGED <<Locals, templates, writes, prev, tplHead, crashed, Outside>>

\* the socket of probe p may fail
MayLose(p) == p \in Runs[run].failing

\* recvfrom returns -1: for a while (permanent FALSE) or from now on
RecvFail(p) ==
    /\ ~crashed
    /\ pc[p] = "recv"
    /\ MayLose(p)
    /\ \E permanent \in BOOLEAN : lost' = [lost EXCEPT ![p] = lost[p] \/ permanent]
    /\ n' = [n EXCEPT ![p] = 0 - 1]
    /\ diag' = [diag EXCEPT ![p] = <<>>]
    /\ pc' = [pc EXCEPT ![p] = "recv_err"]
    /\ UNCHANGED <<buffer, source, ptr, length, flowsetID, flowsetLength, templatePtr,
                   recordPtr, junk, templates, writes, Ghosts, tplHead, readMax, received,
                   Startup, diagFile, diagFileMutex, crashed, dbHandler>>

\* if (n < 0) { perror(...); syslog(...); continue; }
RecvRetry(p) ==
    /\ ~crashed
    /\ pc[p] = "recv_err"
    /\ diag' = [diag EXCEPT ![p] = Log(diag[p], "Error receiving data")]
    /\ pc' = [pc EXCEPT ![p] = "done"]
    /\ UNCHANGED <<buffer, n, source, Locals, templates, writes, Ghosts, tplHead, readMax,
                   received, Outside, crashed>>

\* std::hex << std::setw(2) << std::setfill('0') of one byte, and a space
HexDigit(d) ==
    <<"0", "1", "2", "3", "4", "5", "6", "7", "8", "9", "a", "b", "c", "d", "e", "f">>[d + 1]
Hex(b) == HexDigit(b \div 16) \o HexDigit(b % 16) \o " "

RECURSIVE HexDump(_, _)
\* the loop over buffer[0 .. count - 1]
HexDump(buf, count) ==
    IF count = 0 THEN "" ELSE HexDump(buf, count - 1) \o Hex(buf[count])

\* what one flush of the dump of probe p puts in the file
Part(p, part, text) == [probe |-> p, seq |-> cur[p].seq, part |-> part, text |-> text]

\* a lock that never waits (used to compare with)
LockGuardNoWait(p) == TRUE

\* std::lock_guard<std::mutex> lock(diagFileMutex) returns: no thread holds it
LockGuard(p) == diagFileMutex = 0

\* the file of --diag may fail to open for probe p
MayNotOpen(p) == p \in Runs[run].failing

\* the lock is taken and the file opened for appending; the header line is
\* written and flushed by std::endl
DumpOpen(p) ==
    /\ ~crashed
    /\ pc[p] = "dump"
    /\ LockGuard(p)
    /\ diagFileMutex' = p
    /\ diagFile' = Append(diagFile, Part(p, "header", "Probe: " \o ProbeName[p] \o "\n"))
    /\ pc' = [pc EXCEPT ![p] = "dump_data"]
    /\ UNCHANGED <<buffer, n, source, Locals, templates, writes, diag, Ghosts, tplHead,
                   readMax, received, Startup, lost, crashed, dbHandler>>

\* the lock is taken and the file does not open: a diagnostic, and the lock
\* is released at the end of the block
DumpOpenFails(p) ==
    /\ ~crashed
    /\ pc[p] = "dump"
    /\ LockGuard(p)
    /\ MayNotOpen(p)
    /\ diag' = [diag EXCEPT ![p] = Log(diag[p], "Cannot open diagnostic file")]
    /\ pc' = [pc EXCEPT ![p] = "filter"]
    /\ UNCHANGED <<buffer, n, source, Locals, templates, writes, Ghosts, tplHead,
                   readMax, received, Outside, crashed>>

\* "Data: ", the n bytes in hexadecimal, and the first std::endl
DumpData(p) ==
    /\ ~crashed
    /\ pc[p] = "dump_data"
    /\ diagFile' = Append(diagFile,
                          Part(p, "data", "Data: " \o HexDump(buffer[p], n[p]) \o "\n"))
    /\ pc' = [pc EXCEPT ![p] = "dump_blank"]
    /\ UNCHANGED <<buffer, n, source, Locals, templates, writes, diag, Ghosts, tplHead,
                   readMax, received, Startup, lost, diagFileMutex, crashed, dbHandler>>

\* the second std::endl, close(), and the end of the block releases the lock
DumpClose(p) ==
    /\ ~crashed
    /\ pc[p] = "dump_blank"
    /\ diagFile' = Append(diagFile, Part(p, "blank", "\n"))
    /\ diagFileMutex' = 0
    /\ pc' = [pc EXCEPT ![p] = "filter"]
    /\ UNCHANGED <<buffer, n, source, Locals, templates, writes, diag, Ghosts, tplHead,
                   readMax, received, Startup, lost, crashed, dbHandler>>

\* the end of the loop body: back to recvfrom; the locals of the iteration are gone
LoopBack(p) ==
    /\ ~crashed
    /\ pc[p] = "done"
    /\ pc' = [pc EXCEPT ![p] = "recv"]
    /\ n' = [n EXCEPT ![p] = 0]
    /\ ptr' = [ptr EXCEPT ![p] = 0]
    /\ length' = [length EXCEPT ![p] = 0]
    /\ flowsetID' = [flowsetID EXCEPT ![p] = 0]
    /\ flowsetLength' = [flowsetLength EXCEPT ![p] = 0]
    /\ templatePtr' = [templatePtr EXCEPT ![p] = 0]
    /\ recordPtr' = [recordPtr EXCEPT ![p] = 0]
    /\ junk' = [junk EXCEPT ![p] = 0]
    /\ cur' = [cur EXCEPT ![p] = NoDatagram]
    /\ tplBefore' = [tplBefore EXCEPT ![p] = <<>>]
    /\ wBefore' = [wBefore EXCEPT ![p] = 0]
    /\ prev' = [prev EXCEPT ![p] = cur[p].k]
    /\ tplHead' = [tplHead EXCEPT ![p] = <<>>]
    /\ readMax' = [readMax EXCEPT ![p] = 0]
    /\ diag' = [diag EXCEPT ![p] = <<>>]
    /\ UNCHANGED <<buffer, source, templates, writes, received, crashed, Outside>>

\* if (!accepted) continue;
FilterReject(p) ==
    /\ ~crashed
    /\ pc[p] = "filter"
    /\ ~Accepted(p)
    /\ pc' = [pc EXCEPT ![p] = "done"]
    /\ UNCHANGED <<buffer, n, source, Locals, templates, writes, diag, Ghosts, tplHead, readMax,
                   received, crashed, Outside>>

FilterAccept(p) ==
    /\ ~crashed
    /\ pc[p] = "filter"
    /\ Accepted(p)
    /\ pc' = [pc EXCEPT ![p] = "dispatch"]
    /\ UNCHANGED <<buffer, n, source, Locals, templates, writes, diag, Ghosts, tplHead, readMax,
                   received, crashed, Outside>>

\* uint16_t version = ntohs(*(uint16_t*)buffer)
Version(p, g) == U16At(buffer[p], 0, g)

\* version == 9: processNetFlowV9Data(buffer, n, sonda) up to its while loop
DispatchV9(p) ==
    /\ ~crashed
    /\ pc[p] = "dispatch"
    /\ \E g \in Garbage : Version(p, g) = 9
    /\ ptr' = [ptr EXCEPT ![p] = HeaderSize]
    /\ length' = [length EXCEPT ![p] = n[p] - HeaderSize]
    \* version at offsets 0..1, header->count at offsets 2..3
    /\ readMax' = [readMax EXCEPT ![p] = Max(readMax[p], 4)]
    /\ pc' = [pc EXCEPT ![p] = "fs_head"]
    /\ UNCHANGED <<buffer, n, source, flowsetID, flowsetLength, templatePtr, recordPtr, junk,
                   templates, writes, diag, Ghosts, tplHead, received, crashed, Outside>>

\* version == 10: processIPFIXData, an empty function
DispatchIPFIX(p) ==
    /\ ~crashed
    /\ pc[p] = "dispatch"
    /\ \E g \in Garbage : Version(p, g) = 10
    /\ readMax' = [readMax EXCEPT ![p] = Max(readMax[p], 2)]
    /\ pc' = [pc EXCEPT ![p] = "done"]
    /\ UNCHANGED <<buffer, n, source, Locals, templates, writes, diag, Ghosts, tplHead, received,
                   crashed, Outside>>

\* any other version
DispatchUnknown(p) ==
    /\ ~crashed
    /\ pc[p] = "dispatch"
    /\ readMax' = [readMax EXCEPT ![p] = Max(readMax[p], 2)]
    /\ \E g \in Garbage :
         /\ Version(p, g) \notin {9, 10}
         /\ diag' = [diag EXCEPT
                       ![p] = Log(diag[p], "Unknown NetFlow version: " \o Str(Version(p, g)))]
    /\ pc' = [pc EXCEPT ![p] = "done"]
    /\ UNCHANGED <<buffer, n, source, Locals, templates, writes, Ghosts, tplHead, received, crashed,
                   Outside>>

----------------------------------------------------------------------------
(* processNetFlowV9Data: the FlowSet walk *)

\* flowsetHeader->flowset_id and ->length at ptr
HeadID(p) == U16At(buffer[p], ptr[p], 0)
HeadLength(p) == U16At(buffer[p], ptr[p] + 2, 0)

\* while (length > 0) is false: the function returns
WalkEnd(p) ==
    /\ ~crashed
    /\ pc[p] = "fs_head"
    /\ length[p] <= 0
    /\ pc' = [pc EXCEPT ![p] = "done"]
    /\ UNCHANGED <<buffer, n, source, Locals, templates, writes, diag, Ghosts, tplHead, readMax,
                   received, crashed, Outside>>

\* HeaderIncomplete, were the test left out
HeaderIncompleteNever(p) == FALSE

\* length < 4
HeaderIncomplete(p) == length[p] < FlowSetHeaderSize

\* if (length < 4) { ...; break; }
IncompleteHeader(p) ==
    /\ ~crashed
    /\ pc[p] = "fs_head"
    /\ length[p] > 0
    /\ HeaderIncomplete(p)
    /\ diag' = [diag EXCEPT ![p] = Log(diag[p], "Incomplete FlowSet header.")]
    /\ pc' = [pc EXCEPT ![p] = "done"]
    /\ UNCHANGED <<buffer, n, source, Locals, templates, writes, Ghosts, tplHead, readMax, received,
                   crashed, Outside>>

\* a FlowSet header can be read: the reads and the two statements after them
ReadHead(p) ==
    /\ ~crashed
    /\ pc[p] = "fs_head"
    /\ length[p] > 0
    /\ ~HeaderIncomplete(p)
    /\ flowsetID' = [flowsetID EXCEPT ![p] = HeadID(p)]
    /\ flowsetLength' = [flowsetLength EXCEPT ![p] = HeadLength(p)]
    /\ readMax' = [readMax EXCEPT ![p] = Max(readMax[p], ptr[p] + FlowSetHeaderSize)]
    /\ tplHead' = [tplHead EXCEPT ![p] = templates[p]]

\* Advance, were the body not skipped
AdvanceHeaderOnly(p) ==
    /\ ptr' = [ptr EXCEPT ![p] = ptr[p] + FlowSetHeaderSize]
    /\ length' = [length EXCEPT ![p] = length[p] - FlowSetHeaderSize]

\* ptr += flowsetDataLength; length -= flowsetDataLength; from the start of the header
Advance(p) ==
    /\ ptr' = [ptr EXCEPT ![p] = ptr[p] + FlowSetHeaderSize + FlowsetDataLength(HeadLength(p))]
    /\ length' = [length EXCEPT
                    ![p] = length[p] - FlowSetHeaderSize - FlowsetDataLength(HeadLength(p))]

\* Exceeds, were the check left out
ExceedsNever(p) == FALSE

\* flowsetLength > length + sizeof(NetFlowV9FlowSetHeader), the length on the
\* left of + being the one already reduced by the header
Exceeds(p) == HeadLength(p) > (length[p] - FlowSetHeaderSize) + FlowSetHeaderSize

\* if (flowsetLength > ...) { ...; break; }
LengthExceeds(p) ==
    /\ ReadHead(p)
    /\ Exceeds(p)
    /\ ptr' = [ptr EXCEPT ![p] = ptr[p] + FlowSetHeaderSize]
    /\ length' = [length EXCEPT ![p] = length[p] - FlowSetHeaderSize]
    /\ diag' = [diag EXCEPT
                  ![p] = Log(diag[p], "FlowSet length exceeds remaining packet length.")]
    /\ pc' = [pc EXCEPT ![p] = "done"]
    /\ UNCHANGED <<buffer, n, source, templatePtr, recordPtr, junk, templates, writes,
                   Ghosts, received, crashed, Outside>>

\* flowsetID == 0: char* templatePtr = ptr
TemplateFlowSet(p) ==
    /\ ReadHead(p)
    /\ ~Exceeds(p)
    /\ HeadID(p) = 0
    /\ ptr' = [ptr EXCEPT ![p] = ptr[p] + FlowSetHeaderSize]
    /\ length' = [length EXCEPT ![p] = length[p] - FlowSetHeaderSize]
    /\ templatePtr' = [templatePtr EXCEPT ![p] = ptr[p] + FlowSetHeaderSize]
    /\ pc' = [pc EXCEPT ![p] = "tpl"]
    /\ UNCHANGED <<buffer, n, source, recordPtr, junk, templates, writes, diag, Ghosts,
                   received, crashed, Outside>>

\* a lookup by operator[], which adds the key it does not find (used to
\* compare with)
FindByIndex(tbl, id) == Install(tbl, id, <<>>)

\* sonda.templates.find(templateID): the map after the lookup
Find(tbl, id) == tbl

\* flowsetID > 255 and no such template: diagnostic, skip the body, continue
UnknownTemplate(p) ==
    /\ ReadHead(p)
    /\ ~Exceeds(p)
    /\ HeadID(p) > 255
    /\ HeadID(p) \notin DOMAIN Table(p)
    /\ templates' = [templates EXCEPT ![p] = Find(Table(p), HeadID(p))]
    /\ diag' = [diag EXCEPT ![p] = Log(diag[p], "Unknown template ID: " \o Str(HeadID(p)))]
    /\ Advance(p)
    /\ UNCHANGED <<pc, buffer, n, source, templatePtr, recordPtr, junk, writes,
                   Ghosts, received, crashed, Outside>>

\* flowsetID > 255 and the template is known: recordPtr = ptr, recordLength summed
DataFlowSet(p) ==
    /\ ReadHead(p)
    /\ ~Exceeds(p)
    /\ HeadID(p) > 255
    /\ HeadID(p) \in DOMAIN Table(p)
    /\ ptr' = [ptr EXCEPT ![p] = ptr[p] + FlowSetHeaderSize]
    /\ length' = [length EXCEPT ![p] = length[p] - FlowSetHeaderSize]
    /\ recordPtr' = [recordPtr EXCEPT ![p] = ptr[p] + FlowSetHeaderSize]
    /\ \E j \in Indeterminate : junk' = [junk EXCEPT ![p] = j]
    /\ pc' = [pc EXCEPT ![p] = "rec"]
    /\ UNCHANGED <<buffer, n, source, templatePtr, templates, writes, diag, Ghosts,
                   received, crashed, Outside>>

\* flowsetID in 1..255: ignored, the body is skipped
OtherFlowSet(p) ==
    /\ ReadHead(p)
    /\ ~Exceeds(p)
    /\ HeadID(p) # 0
    /\ HeadID(p) <= 255
    /\ Advance(p)
    /\ UNCHANGED <<pc, buffer, n, source, templatePtr, recordPtr, junk, templates, writes,
                   diag, Ghosts, received, crashed, Outside>>

\* the two statements after the if / else if / else, ptr being past the header
AdvanceBody(p) ==
    /\ ptr' = [ptr EXCEPT ![p] = ptr[p] + FlowsetDataLength(flowsetLength[p])]
    /\ length' = [length EXCEPT ![p] = length[p] - FlowsetDataLength(flowsetLength[p])]
    /\ pc' = [pc EXCEPT ![p] = "fs_head"]

----------------------------------------------------------------------------
(* processNetFlowV9Data: the template record loop *)

\* one pass of while (templatePtr < ptr + flowsetDataLength)
TemplateRecord(p) ==
    /\ ~crashed
    /\ pc[p] = "tpl"
    /\ templatePtr[p] < FlowsetEnd(p)
    /\ \E g \in Garbage :
         /\ templates' = [templates EXCEPT
                            ![p] = Install(Table(p),
                                           TemplateIDAt(buffer[p], templatePtr[p], g),
                                           FieldsAt(buffer[p], templatePtr[p], g))]
         /\ templatePtr' = [templatePtr EXCEPT
                              ![p] = TemplateRecordEnd(buffer[p], templatePtr[p], g)]
         /\ readMax' = [readMax EXCEPT
                          ![p] = Max(readMax[p],
                                     TemplateRecordEnd(buffer[p], templatePtr[p], g))]
    /\ UNCHANGED <<pc, buffer, n, source, ptr, length, flowsetID, flowsetLength, recordPtr,
                   junk, writes, diag, Ghosts, tplHead, received, crashed, Outside>>

\* the loop condition is false: on to the next FlowSet
TemplateEnd(p) ==
    /\ ~crashed
    /\ pc[p] = "tpl"
    /\ ~(templatePtr[p] < FlowsetEnd(p))
    /\ AdvanceBody(p)
    /\ UNCHANGED <<buffer, n, source, flowsetID, flowsetLength, templatePtr, recordPtr, junk,
                   templates, writes, diag, Ghosts, tplHead, readMax, received, crashed,
                   Outside>>

----------------------------------------------------------------------------
(* processNetFlowV9Data: the data record loop *)

\* std::vector<NetFlowV9FieldSpecifier>& fields = sonda.templates[templateID]
Fields(p) == Table(p)[flowsetID[p]]
\* size_t recordLength
RecordLength(p) == SumLen(Fields(p))

\* RecordFits with < for <=
RecordFitsStrictly(p) == recordPtr[p] + RecordLength(p) < FlowsetEnd(p)

\* recordPtr + recordLength <= ptr + flowsetDataLength
RecordFits(p) == recordPtr[p] + RecordLength(p) <= FlowsetEnd(p)

\* the condition of the while loop holds
DataTest(p) ==
    /\ ~crashed
    /\ pc[p] = "rec"
    /\ RecordFits(p)
    /\ pc' = [pc EXCEPT ![p] = "rec_body"]
    /\ UNCHANGED <<buffer, n, source, Locals, templates, writes, diag, Ghosts, tplHead, readMax,
                   received, crashed, Outside>>

\* the loop body: the field switch, insertFlowData, recordPtr += recordLength
DataRecord(p) ==
    /\ ~crashed
    /\ pc[p] = "rec_body"
    /\ \E g \in Garbage, ok \in BOOLEAN :
         /\ ok \/ MayFail(p)
         /\ writes' = [writes EXCEPT
                         ![p] = Insert(writes[p],
                                       Materialize(p, Fields(p), buffer[p], recordPtr[p], g,
                                                   junk[p]),
                                       cur[p].seq, recordPtr[p], ok)]
         \* if (!insertFlowData(flowData)) { std::cerr << ...; syslog(...); }
         /\ diag' = [diag EXCEPT
                       ![p] = IF ok THEN diag[p]
                              ELSE Log(diag[p], "Failed to insert flow data into database.")]
    /\ readMax' = [readMax EXCEPT
                     ![p] = Max(readMax[p], FieldsExtent(Fields(p), 1, recordPtr[p]))]
    /\ recordPtr' = [recordPtr EXCEPT ![p] = recordPtr[p] + RecordLength(p)]
    /\ pc' = [pc EXCEPT ![p] = "rec"]
    /\ UNCHANGED <<buffer, n, source, ptr, length, flowsetID, flowsetLength, templatePtr,
                   junk, templates, Ghosts, tplHead, received, crashed, Outside>>

\* the loop condition is false: the residue is skipped, on to the next FlowSet
DataEnd(p) ==
    /\ ~crashed
    /\ pc[p] = "rec"
    /\ ~RecordFits(p)
    /\ AdvanceBody(p)
    /\ UNCHANGED <<buffer, n, source, flowsetID, flowsetLength, templatePtr, recordPtr, junk,
                   templates, writes, diag, Ghosts, tplHead, readMax, received, crashed,
                   Outside>>

\* A field count can take the template record loop past the end of the receive
\* buffer; a read there is undefined: it yields whatever lies there (g in
\* TemplateRecord) or ends the process.  (A data record lies inside its FlowSet,
\* and a datagram is shorter than the buffer by more than the widest cast.)
Fault(p) ==
    /\ ~crashed
    /\ pc[p] = "tpl"
    /\ templatePtr[p] < FlowsetEnd(p)
    /\ \E g \in Garbage : TemplateRecordEnd(buffer[p], templatePtr[p], g) > BufSize
    /\ crashed' = TRUE
    /\ UNCHANGED <<pc, buffer, n, source, Locals, templates, writes, diag, Ghosts, tplHead, readMax,
                   received, Outside>>

----------------------------------------------------------------------------

Step(p) ==
    \/ Recv(p)
    \/ RecvFail(p)
    \/ RecvRetry(p)
    \/ DumpOpen(p)
    \/ DumpOpenFails(p)
    \/ DumpData(p)
    \/ DumpClose(p)
    \/ FilterReject(p)
    \/ FilterAccept(p)
    \/ DispatchV9(p)
    \/ DispatchIPFIX(p)
    \/ DispatchUnknown(p)
    \/ WalkEnd(p)
    \/ IncompleteHeader(p)
    \/ LengthExceeds(p)
    \/ TemplateFlowSet(p)
    \/ UnknownTemplate(p)
    \/ DataFlowSet(p)
    \/ OtherFlowSet(p)
    \/ TemplateRecord(p)
    \/ TemplateEnd(p)
    \/ DataTest(p)
    \/ DataRecord(p)
    \/ DataEnd(p)
    \/ LoopBack(p)
    \/ Fault(p)

Next == Main \/ \E p \in Probes : Step(p)

Spec == Init /\ [][Next]_vars

\* what a probe's thread does once recvfrom has returned
Decode(p) ==
    \/ DumpOpen(p) \/ DumpOpenFails(p) \/ DumpData(p) \/ DumpClose(p)
    \/ FilterReject(p) \/ FilterAccept(p)
    \/ DispatchV9(p) \/ DispatchIPFIX(p) \/ DispatchUnknown(p)
    \/ WalkEnd(p) \/ IncompleteHeader(p) \/ LengthExceeds(p)
    \/ TemplateFlowSet(p) \/ UnknownTemplate(p) \/ DataFlowSet(p) \/ OtherFlowSet(p)
    \/ TemplateRecord(p) \/ TemplateEnd(p)
    \/ DataTest(p) \/ DataRecord(p) \/ DataEnd(p)
    \/ LoopBack(p)

\* recvfrom on a lost socket returns at once, and the thread goes round the loop
Retry(p) == (lost[p] /\ RecvFail(p)) \/ RecvRetry(p) \/ LoopBack(p)

\* Every probe thread that can take a step of its own eventually takes one.
FairSpec == Spec /\ WF_vars(Main) /\ \A p \in Probes : WF_vars(Decode(p)) /\ WF_vars(Retry(p))

----------------------------------------------------------------------------
(* Vocabulary of the properties: a datagram as its exporter laid it out,    *)
(* and what a sequential reading of that layout amounts to.                 *)

\* the received length of datagram d
WireLen(d) == Len(Wire(d))

RECURSIVE FlowSetStart(_, _)
\* the offset of the header of the i-th FlowSet of d
FlowSetStart(d, i) ==
    IF i = 1 THEN HeaderSize ELSE FlowSetStart(d, i - 1) + Len(EncFS(d.fs[i - 1]))

\* the written length of f is the length of what was laid out
WholeFlowSet(f) ==
    /\ f.len = FlowSetHeaderSize + Len(EncFSBody(f))
    /\ \A i \in 1..Len(f.recs) : f.recs[i].cnt = Len(f.recs[i].fields)
    /\ f.id # 0 => f.recs = <<>>

\* d arrived whole and each of its FlowSets is as long as it says
Whole(d) ==
    /\ d.version = 9
    /\ d.cut = 0
    /\ d.tail = <<>>
    /\ \A i \in 1..Len(d.fs) : WholeFlowSet(d.fs[i])

\* d is a well-formed v9 datagram: whole, its template FlowSets made of template
\* records, each with an id of 256 or more, a field, and a positive width,
\* followed by fewer than 4 bytes of zero padding
WellFormed(d) ==
    /\ Whole(d)
    /\ \A i \in 1..Len(d.fs) :
         d.fs[i].id = 0 =>
            /\ Len(d.fs[i].body) < TemplateRecordSize
            /\ \A b \in 1..Len(d.fs[i].body) : d.fs[i].body[b] = 0
            /\ \A k \in 1..Len(d.fs[i].recs) :
                 /\ d.fs[i].recs[k].id >= 256
                 /\ d.fs[i].recs[k].cnt >= 1
                 /\ SumLen(d.fs[i].recs[k].fields) > 0

RECURSIVE Defined(_, _, _)
\* tbl after the first k template records recs, each replacing what its id held
Defined(tbl, recs, k) ==
    IF k = 0 THEN tbl
    ELSE LET t == Defined(tbl, recs, k - 1) IN
         [x \in DOMAIN t \cup {recs[k].id} |->
            IF x = recs[k].id THEN recs[k].fields ELSE t[x]]

RECURSIVE TableAfter(_, _, _)
\* the table after the first i FlowSets of fs, read in order, starting from tbl
TableAfter(fs, i, tbl) ==
    IF i = 0 THEN tbl
    ELSE IF fs[i].id = 0
         THEN Defined(TableAfter(fs, i - 1, tbl), fs[i].recs, Len(fs[i].recs))
         ELSE TableAfter(fs, i - 1, tbl)

\* the records of data FlowSet f under the table tbl
RecordsIn(f, tbl) == (f.len - FlowSetHeaderSize) \div SumLen(tbl[f.id])

RECURSIVE RecordsUnder(_, _, _)
\* the number of records of the first i FlowSets of fs, each data FlowSet
\* counted under the one table tbl
RecordsUnder(fs, i, tbl) ==
    IF i = 0 THEN 0
    ELSE RecordsUnder(fs, i - 1, tbl) +
         (IF fs[i].id > 255 THEN RecordsIn(fs[i], tbl) ELSE 0)

RECURSIVE RecordsAfter(_, _, _)
\* the number of records of the first i FlowSets of fs, each data FlowSet
\* counted under the table as it is when the FlowSet is reached
RecordsAfter(fs, i, tbl) ==
    IF i = 0 THEN 0
    ELSE RecordsAfter(fs, i - 1, tbl) +
         (IF fs[i].id > 255 /\ fs[i].id \in DOMAIN TableAfter(fs, i - 1, tbl)
          THEN RecordsIn(fs[i], TableAfter(fs, i - 1, tbl)) ELSE 0)

\* each data FlowSet among the first i finds, when it is reached, a template
\* of positive width
KnownWhenReached(fs, i, tbl) ==
    \A j \in 1..i :
        fs[j].id > 255 =>
            /\ fs[j].id \in DOMAIN TableAfter(fs, j - 1, tbl)
            /\ SumLen(TableAfter(fs, j - 1, tbl)[fs[j].id]) > 0

\* the text of an exporter address
ExporterText(src) == IF src = S1 THEN "10.0.0.1" ELSE "10.0.0.2"

\* the filter of probe p lets the datagram in its buffer through
Passes(p) == FilterAddress[p] = "" \/ FilterAddress[p] = ExporterText(Cur(p).src)

\* probe p is through with a datagram that passed the filter
Returned(p) == pc[p] = "done" /\ cur[p].k # 0 /\ Passes(p)

\* the records written for the datagram in the buffer
Written(p) == Len(writes[p]) - wBefore[p]

\* everything that belongs to probe p
Own(p) ==
    <<pc[p], buffer[p], n[p], source[p], ptr[p], length[p], flowsetID[p], flowsetLength[p],
      templatePtr[p], recordPtr[p], junk[p], templates[p], writes[p], diag[p], cur[p],
      prev[p], tplHead[p], readMax[p], lost[p]>>

\* the step is one of probe p
Stepped(p) == Own(p)' # Own(p)

\* the decoder of probe p stands at the header of the i-th FlowSet of the datagram
AtFlowSet(p, i) ==
    /\ pc[p] = "fs_head"
    /\ cur[p].k # 0
    /\ i \in 1..Len(Cur(p).fs)
    /\ ptr[p] = FlowSetStart(Cur(p), i)
    /\ ptr[p] + FlowSetHeaderSize <= WireLen(Cur(p))

Last(q) == q[Len(q)]

----------------------------------------------------------------------------
(* C1 *)

\* C1: every byte the decoder reads of a datagram of received length n lies at
\* an offset in 0..n-1.
C1_ReadsWithinDatagram == \A p \in Probes : readMax[p] <= n[p]

(* C2 *)

\* C2: once the FlowSet walk has started, processNetFlowV9Data returns (the
\* process ending on a fault aside).
C2_DecoderReturns == \A p \in Probes : (pc[p] = "fs_head") ~> (pc[p] = "done" \/ crashed)

(* C3 *)

\* C3 as stated: for a well-formed datagram whose data FlowSets all refer to a
\* template that is in the table once the datagram's own template FlowSets are
\* processed, the records written are the sum over its data FlowSets of
\* floor((length - 4) / width), the width being that of the template in that
\* table.
C3_CountUnderFinalTable ==
    \A p \in Probes :
        ( /\ Returned(p)
          /\ WellFormed(Cur(p))
          /\ Len(writes[p]) < MaxWrites
          /\ \A i \in 1..Len(Cur(p).fs) :
                Cur(p).fs[i].id > 255 =>
                    /\ Cur(p).fs[i].id \in DOMAIN templates[p]
                    /\ SumLen(templates[p][Cur(p).fs[i].id]) > 0 )
        => Written(p) = RecordsUnder(Cur(p).fs, Len(Cur(p).fs), templates[p])

\* C3 amended: for a well-formed datagram each of whose data FlowSets refers to
\* a template of positive width that is in the table when the FlowSet is
\* reached, the records written are the sum over its data FlowSets of
\* floor((length - 4) / width), the width being that of the template then in
\* the table; the residue of a FlowSet gives no record.
C3_CountUnderTableWhenReached ==
    \A p \in Probes :
        ( /\ Returned(p)
          /\ WellFormed(Cur(p))
          /\ Len(writes[p]) < MaxWrites
          /\ KnownWhenReached(Cur(p).fs, Len(Cur(p).fs), tplBefore[p]) )
        => Written(p) = RecordsAfter(Cur(p).fs, Len(Cur(p).fs), tplBefore[p])

\* a datagram with a template and 8 bytes of data for it, of width 3, is done:
\* two records written, two bytes of residue
C3_Witness ==
    \E p \in Probes :
        /\ Returned(p)
        /\ cur[p].k = 4
        /\ WellFormed(Cur(p))
        /\ KnownWhenReached(Cur(p).fs, Len(Cur(p).fs), tplBefore[p])
        /\ Len(writes[p]) < MaxWrites
        /\ Written(p) = 2

(* C4 *)

\* C4: once a datagram that arrived whole is processed, every template id X of
\* one of its template records is in the table with the field list of the last
\* template record for X.
C4_TableHoldsLatestDefinition ==
    \A p \in Probes :
        (Returned(p) /\ Whole(Cur(p)))
        => \A i \in 1..Len(Cur(p).fs) :
             \A k \in 1..Len(Cur(p).fs[i].recs) :
                LET X == Cur(p).fs[i].recs[k].id IN
                /\ X \in DOMAIN templates[p]
                /\ templates[p][X] = TableAfter(Cur(p).fs, Len(Cur(p).fs), tplBefore[p])[X]

(* C5 *)

\* C5: at a data FlowSet whose id is not in the probe's table, the decoder
\* writes no record, reports "Unknown template ID: <id>", leaves the table as
\* it is, moves on by the FlowSet's declared length, and is at the head of the
\* next FlowSet.
C5_UnknownTemplateSkipped ==
    [][\A p \in Probes :
          (cur[p].k # 0 /\ Stepped(p)) =>
             \A i \in 1..Len(Cur(p).fs) :
                ( /\ AtFlowSet(p, i)
                  /\ Cur(p).fs[i].id > 255
                  /\ Cur(p).fs[i].id \notin DOMAIN templates[p]
                  /\ Cur(p).fs[i].len <= WireLen(Cur(p)) - FlowSetStart(Cur(p), i) )
                => /\ writes'[p] = writes[p]
                   /\ templates'[p] = templates[p]
                   /\ Len(diag[p]) < MaxDiag =>
                        diag'[p] = Append(diag[p],
                                          "Unknown template ID: " \o Str(Cur(p).fs[i].id))
                   /\ ptr'[p] = FlowSetStart(Cur(p), i) + Cur(p).fs[i].len
                   /\ length'[p] = length[p] - Cur(p).fs[i].len
                   /\ pc'[p] = "fs_head"]_vars

\* data for the unknown 257 was skipped with its diagnostic, and the FlowSet
\* behind it gave its two records
C5_Witness ==
    \E p \in Probes :
        /\ Returned(p)
        /\ cur[p].k = 6
        /\ diag[p] = <<"Unknown template ID: 257">>
        /\ templates[p] = tplBefore[p]
        /\ Written(p) = 2

(* C6 *)

\* C6: a received datagram goes to the version dispatch if and only if the
\* probe's filter address is empty or is the dotted-quad text of the source
\* address; a rejected datagram writes nothing and leaves the table as it is.
C6_FilterDecides ==
    [][\A p \in Probes :
          /\ (pc[p] = "filter" /\ Stepped(p)) =>
                /\ (pc'[p] = "dispatch") <=> Passes(p)
                /\ ~Passes(p) =>
                      /\ pc'[p] = "done"
                      /\ writes'[p] = writes[p]
                      /\ templates'[p] = templates[p]
          /\ (pc[p] = "done" /\ cur[p].k # 0 /\ ~Passes(p)) =>
                /\ Written(p) = 0
                /\ templates[p] = tplBefore[p]
                /\ pc'[p] \in {"done", "recv"}]_vars

\* the probe that filters on 10.0.0.1 is through with a template datagram from
\* 10.0.0.2, and has no template
C6_Witness ==
    \E p \in Probes :
        /\ pc[p] = "done"
        /\ cur[p].k = 2
        /\ FilterAddress[p] = "10.0.0.1"
        /\ templates[p] = tplBefore[p]
        /\ 256 \notin DOMAIN templates[p]

(* C7 *)

\* C7: a datagram whose version is not 9 writes no record, leaves the table as
\* it is, and records a diagnostic.
C7_OtherVersionsDiagnosed ==
    \A p \in Probes :
        (Returned(p) /\ Cur(p).cut = 0 /\ Cur(p).version # 9)
        => /\ Written(p) = 0
           /\ templates[p] = tplBefore[p]
           /\ diag[p] # <<>>

(* C8 *)

\* C8: the writes of a probe are in the order of the records: those of an
\* earlier datagram before those of a later one, and within a datagram by
\* their place in it.
C8_WritesInOrder ==
    \A p \in Probes :
        \A i \in 1..Len(writes[p]) :
            \A j \in 1..Len(writes[p]) :
                i < j =>
                    \/ writes[p][i].seq < writes[p][j].seq
                    \/ /\ writes[p][i].seq = writes[p][j].seq
                       /\ writes[p][i].at <= writes[p][j].at

\* a probe has written two records of one datagram and then one of the next
C8_Witness ==
    \E p \in Probes :
        /\ Len(writes[p]) = 3
        /\ writes[p][1].seq = 1 /\ writes[p][2].seq = 1 /\ writes[p][3].seq = 2
        /\ writes[p][1].at < writes[p][2].at

(* C9 *)

\* C9: a step of one probe changes nothing of another; a probe decodes a data
\* FlowSet only under a template of its own table, which changes by one id at
\* a time; every record a probe writes carries that probe's name.
C9_ProbesApart ==
    [][\A p \in Probes :
          /\ Stepped(p) => \A q \in Probes \ {p} : Own(q)' = Own(q)
          /\ pc'[p] \in {"rec", "rec_body"} => flowsetID'[p] \in DOMAIN templates'[p]
          /\ \A x \in DOMAIN templates[p] : x \in DOMAIN templates'[p]
          /\ \A x \in DOMAIN templates'[p], y \in DOMAIN templates'[p] :
                (x \notin DOMAIN templates[p] /\ y \notin DOMAIN templates[p]) => x = y
          /\ \A i \in 1..Len(writes'[p]) :
                writes'[p][i].rec.SourceSond = (IF p = 1 THEN "sonda1" ELSE "sonda2")]_vars

\* the second probe has template 256 and has written under it, while the first
\* probe has found the same id unknown
C9_Witness ==
    /\ 256 \in DOMAIN templates[2]
    /\ Len(writes[2]) > 0
    /\ 256 \notin DOMAIN templates[1]
    /\ pc[1] = "done"
    /\ diag[1] = <<"Unknown template ID: 256">>

(* C10 *)

\* C10: at a FlowSet header whose length is more than what is left of the
\* datagram from the start of that header, the decoder reports "FlowSet length
\* exceeds remaining packet length." and returns, with the table and the
\* writes as the earlier FlowSets left them.
C10_LengthExceedsStops ==
    [][\A p \in Probes :
          (cur[p].k # 0 /\ Stepped(p)) =>
             \A i \in 1..Len(Cur(p).fs) :
                ( /\ AtFlowSet(p, i)
                  /\ Cur(p).fs[i].len > WireLen(Cur(p)) - FlowSetStart(Cur(p), i) )
                => /\ pc'[p] = "done"
                   /\ writes'[p] = writes[p]
                   /\ templates'[p] = templates[p]
                   /\ Len(diag[p]) < MaxDiag =>
                        diag'[p] = Append(diag[p],
                                          "FlowSet length exceeds remaining packet length.")]_vars

\* the datagram whose second FlowSet says 4096 is done: the two records of its
\* first FlowSet are written, the template of the second is not installed
C10_Witness ==
    \E p \in Probes :
        /\ Returned(p)
        /\ cur[p].k = 7
        /\ Written(p) = 2
        /\ diag[p] = <<"FlowSet length exceeds remaining packet length.">>
        /\ 257 \notin DOMAIN templates[p]
        /\ templates[p] = tplBefore[p]

(* C11 *)

\* C11: at a FlowSet header whose length is 0, 1, 2 or 3 the decoder reports
\* a diagnostic and returns: no body is interpreted, the table and the writes
\* stay, and the cursor does not move back.
C11_ShortLengthStops ==
    [][\A p \in Probes :
          (cur[p].k # 0 /\ Stepped(p)) =>
             \A i \in 1..Len(Cur(p).fs) :
                (AtFlowSet(p, i) /\ Cur(p).fs[i].len < FlowSetHeaderSize)
                => /\ pc'[p] = "done"
                   /\ diag'[p] # diag[p]
                   /\ writes'[p] = writes[p]
                   /\ templates'[p] = templates[p]
                   /\ ptr'[p] >= ptr[p]]_vars

(* C12 *)

\* C12: with 1 to 3 bytes left where a FlowSet header is expected, the decoder
\* reports "Incomplete FlowSet header." and returns, writing nothing more and
\* leaving the table as it is.
C12_IncompleteHeaderStops ==
    [][\A p \in Probes :
          ( /\ cur[p].k # 0
            /\ Stepped(p)
            /\ pc[p] = "fs_head"
            /\ ptr[p] = FlowSetStart(Cur(p), Len(Cur(p).fs) + 1)
            /\ WireLen(Cur(p)) - ptr[p] \in 1..(FlowSetHeaderSize - 1) )
          => /\ pc'[p] = "done"
             /\ writes'[p] = writes[p]
             /\ templates'[p] = templates[p]
             /\ Len(diag[p]) < MaxDiag =>
                  diag'[p] = Append(diag[p], "Incomplete FlowSet header.")]_vars

\* the datagram with three bytes behind its template FlowSet is done: the
\* template is installed, the three bytes gave the diagnostic and nothing else
C12_Witness ==
    \E p \in Probes :
        /\ Returned(p)
        /\ cur[p].k = 15
        /\ diag[p] = <<"Incomplete FlowSet header.">>
        /\ 256 \in DOMAIN templates[p]
        /\ templates[p][256] = FA
        /\ DOMAIN templates[p] = DOMAIN tplBefore[p] \cup {256}
        /\ Written(p) = 0

(* C13 *)

\* C13: every key of every probe's template table is in 256..65535.
C13_KeysAreTemplateIds ==
    \A p \in Probes : \A x \in DOMAIN templates[p] : x >= 256 /\ x <= 65535

(* C14 *)

\* C14: every template of every probe's table has at least one field.
C14_TemplatesHaveFields ==
    \A p \in Probes : \A x \in DOMAIN templates[p] : Len(templates[p][x]) >= 1

(* C15 *)

\* C15: every template of every probe's table has a width greater than 0.
C15_TemplatesHaveWidth ==
    \A p \in Probes : \A x \in DOMAIN templates[p] : SumLen(templates[p][x]) > 0

(* C16 *)

\* C16: a template FlowSet processed twice in a row leaves the table as it was
\* after the first time: in one datagram, the table behind the second of two
\* equal template FlowSets is the table at the head of the second; in two
\* consecutive datagrams made of the same template FlowSet, the table after
\* the second datagram is the table after the first.
C16_TemplateFlowSetIdempotent ==
    \A p \in Probes :
        /\ ( /\ pc[p] = "fs_head"
             /\ cur[p].k # 0
             /\ Whole(Cur(p)) )
           => \A i \in 3..(Len(Cur(p).fs) + 1) :
                ( /\ ptr[p] = FlowSetStart(Cur(p), i)
                  /\ Cur(p).fs[i - 1].id = 0
                  /\ Cur(p).fs[i - 1] = Cur(p).fs[i - 2] )
                => templates[p] = tplHead[p]
        /\ ( /\ Returned(p)
             /\ Whole(Cur(p))
             /\ prev[p] = cur[p].k
             /\ Len(Cur(p).fs) = 1
             /\ Cur(p).fs[1].id = 0 )
           => templates[p] = tplBefore[p]

(* C17 *)

\* C17: the decoder calls the sink once for a record; when the call fails it
\* logs "Failed to insert flow data into database.", leaves the table as it
\* is, and goes on to the next record of the FlowSet.
C17_WriteFailureDropsRecord ==
    [][\A p \in Probes :
          (pc[p] = "rec_body" /\ Stepped(p) /\ Len(writes[p]) + 1 < MaxWrites) =>
             /\ Len(writes'[p]) = Len(writes[p]) + 1
             /\ SubSeq(writes'[p], 1, Len(writes[p])) = writes[p]
             /\ ~Last(writes'[p]).ok =>
                   /\ Len(diag[p]) < MaxDiag =>
                        diag'[p] = Append(diag[p], "Failed to insert flow data into database.")
                   /\ templates'[p] = templates[p]
                   /\ recordPtr'[p] = recordPtr[p] + SumLen(templates[p][flowsetID[p]])
                   /\ ptr'[p] = ptr[p]
                   /\ pc'[p] = "rec"]_vars

\* a call failed, was logged, and the record behind it in the same FlowSet was
\* written
C17_Witness ==
    \E p \in Probes :
        /\ Len(writes[p]) = 2
        /\ ~writes[p][1].ok
        /\ writes[p][2].ok
        /\ writes[p][2].seq = writes[p][1].seq
        /\ writes[p][2].at > writes[p][1].at
        /\ diag[p] = <<"Failed to insert flow data into database.">>
        /\ templates[p] = tplHead[p]

(* C18 *)

\* C18: a receive failure is logged and the receive is made again with the
\* table, the writes and the buffer as they were; a probe whose socket is lost
\* for good ends its thread, and no other thread ends with it.
C18_ReceiveFailures ==
    /\ [][\A p \in Probes :
             /\ (pc[p] = "recv_err" /\ Stepped(p)) =>
                   /\ pc'[p] = "done"
                   /\ diag'[p] = <<"Error receiving data">>
                   /\ templates'[p] = templates[p]
                   /\ writes'[p] = writes[p]
                   /\ buffer'[p] = buffer[p]
             /\ (pc[p] = "done" /\ n[p] < 0 /\ Stepped(p)) =>
                   /\ pc'[p] = "recv"
                   /\ templates'[p] = templates[p]
                   /\ writes'[p] = writes[p]
                   /\ buffer'[p] = buffer[p]
             /\ pc'[p] = "exited" => (Stepped(p) /\ lost[p])]_vars
    /\ \A p \in Probes : lost[p] ~> (pc[p] = "exited" \/ crashed)

(* C19 *)

\* the places in the file of the parts of the dump of datagram seq
PartsOf(seq) == {i \in 1..Len(diagFile) : diagFile[i].seq = seq}

\* the dump of a datagram is whole: its header line, hex line and blank line
Dumped(seq) == {diagFile[i].part : i \in PartsOf(seq)} = {"header", "data", "blank"}

\* C19: a thread between the first and the last part of its dump holds the
\* mutex, and the parts of one datagram's dump stand together in the file, in
\* the order header line, hex bytes, blank line, with no part of another dump
\* between them.
C19_DumpIsOneCriticalSection ==
    /\ \A p \in Probes : pc[p] \in {"dump_data", "dump_blank"} => diagFileMutex = p
    /\ \A i \in 1..Len(diagFile) :
          LET d == diagFile[i] IN
          /\ d.part = "header" => d.text = "Probe: " \o ProbeName[d.probe] \o "\n"
          /\ d.part = "data" =>
                /\ i > 1
                /\ diagFile[i - 1].seq = d.seq
                /\ diagFile[i - 1].part = "header"
          /\ d.part = "blank" =>
                /\ i > 2
                /\ diagFile[i - 1].seq = d.seq
                /\ diagFile[i - 1].part = "data"
                /\ d.text = "\n"
          /\ (d.part # "blank" /\ i < Len(diagFile)) => diagFile[i + 1].seq = d.seq

\* probe 1 has received and waits for the mutex while probe 2 is between the
\* hex line and the blank line of its dump
C19_Witness ==
    /\ pc[1] = "dump"
    /\ pc[2] = "dump_blank"
    /\ Len(diagFile) = 2
    /\ diagFile[2].probe = 2
    /\ ~Dumped(diagFile[2].seq)

(* C20 *)

\* every configured probe has a name and a port that is not zero
ConfigValid ==
    /\ IniFile.readable
    /\ \A i \in 1..sondaCount :
          /\ IniFile.sonda[i].name # ""
          /\ GetInteger(IniFile.sonda[i].port, 0) # 0

\* C20: a worker thread runs only when the configuration of every probe was
\* accepted and the socket and the sink of every probe were set up; once the
\* configuration is refused, or a bind or a sink fails, main has returned 1
\* and no worker was started.
C20_NoWorkerUnlessAllSetUp ==
    /\ Started # {} =>
          /\ ConfigValid
          /\ Len(sondaConfigs) = sondaCount
          /\ Len(setup) = sondaCount
          /\ \A i \in 1..Len(setup) : setup[i] = "ok"
          /\ exitCode = NotExited
    /\ (mainPc # "load" /\ ~ConfigValid) => (exitCode = 1 /\ Started = {})
    /\ (\E i \in 1..Len(setup) : setup[i] # "ok") => (exitCode = 1 /\ Started = {})
    /\ exitCode \in {NotExited, 1}
    /\ exitCode = 1 => (mainPc = "exit" /\ Started = {})

\* the socket and the sink of the first probe are set up, the sink of the
\* second does not open: main has returned 1 and no thread runs
C20_Witness ==
    /\ ConfigValid
    /\ setup = <<"ok", "nosink">>
    /\ exitCode = 1
    /\ Started = {}

(* C21 *)

\* C21: a datagram of fewer than 20 bytes writes no record and leaves the table
\* as it is; one of fewer than 2 bytes is dropped with a diagnostic, and no
\* byte is read of it that was not received.
C21_ShortDatagramDropped ==
    \A p \in Probes :
        (Returned(p) /\ n[p] < HeaderSize)
        => /\ Written(p) = 0
           /\ templates[p] = tplBefore[p]
           /\ n[p] < 2 => (diag[p] # <<>> /\ readMax[p] <= n[p])

(* C24 *)

\* C24: every template record the loop parses and installs lies inside the
\* body of its template FlowSet: its 4-byte header and all the field
\* specifiers its field_count announces end at or before the FlowSet's length
\* boundary.
C24_TemplateRecordsInsideBody ==
    [][\A p \in Probes :
          (pc[p] = "tpl" /\ pc'[p] = "tpl" /\ templatePtr'[p] # templatePtr[p])
          => /\ templatePtr[p] + TemplateRecordSize <= FlowsetEnd(p)
             /\ templatePtr'[p] <= FlowsetEnd(p)]_vars

(* C30 *)

\* C30: the table of a probe changes only in a step of the template record
\* loop of a FlowSet with id 0: no step taken at the head of a FlowSet with
\* another id, known or unknown, or inside a data FlowSet, changes it.
C30_OnlyTemplateFlowSetsChangeTable ==
    [][\A p \in Probes :
          /\ templates'[p] # templates[p] => (pc[p] = "tpl" /\ flowsetID[p] = 0)
          /\ (pc[p] = "fs_head" /\ length[p] >= FlowSetHeaderSize /\ HeadID(p) # 0)
                => templates'[p] = templates[p]
          /\ pc[p] \in {"rec", "rec_body"} => templates'[p] = templates[p]]_vars

\* with template 256 in its table a probe has walked data for the unknown 257
\* and data for 256: the table is as it was
C30_Witness ==
    \E p \in Probes :
        /\ pc[p] = "done"
        /\ cur[p].k = 6
        /\ DOMAIN templates[p] = {256}
        /\ templates[p] = tplBefore[p]
        /\ Len(diag[p]) = 1
        /\ Len(writes[p]) > wBefore[p]

(* C26 *)

\* the field types of the template the data FlowSet of probe p is decoded under
TypesOf(p) == {Fields(p)[i].type : i \in 1..Len(Fields(p))}

\* C26: in every record handed to the sink, an attribute whose field type the
\* template lacks has its default: 0 for the ports, the protocol and the two
\* counts, the empty string for the addresses; flow start and end are empty.
C26_MissingAttributesDefault ==
    [][\A p \in Probes :
          (pc[p] = "rec_body" /\ Len(writes'[p]) = Len(writes[p]) + 1)
          => LET r == Last(writes'[p]).rec IN
             /\ 8 \notin TypesOf(p) => r.SourceIP = ""
             /\ 12 \notin TypesOf(p) => r.DestinationIP = ""
             /\ 7 \notin TypesOf(p) => r.SourcePort = 0
             /\ 11 \notin TypesOf(p) => r.DestinationPort = 0
             /\ 4 \notin TypesOf(p) => r.Protocol = 0
             /\ 2 \notin TypesOf(p) => r.PacketCount = 0
             /\ 1 \notin TypesOf(p) => r.ByteCount = 0
             /\ r.FlowStart = ""
             /\ r.FlowEnd = ""]_vars

(* C25 *)

RECURSIVE BigEndian(_, _, _)
\* the number the w bytes of buf from offset at spell, most significant first
BigEndian(buf, at, w) ==
    IF w = 0 THEN 0 ELSE BigEndian(buf, at, w - 1) * 256 + buf[at + w]

\* the low 32 bits of that number: what its last four bytes spell
Low32(buf, at, w) == IF w <= 4 THEN BigEndian(buf, at, w) ELSE BigEndian(buf, at + w - 4, 4)

\* the offset in the record of the k-th field of the template
OffsetOf(fields, k) == SumLen(SubSeq(fields, 1, k - 1))

\* C25: a record decoded under a template with one field of type 1 (or 2), w
\* bytes wide, has as byte_count (packet_count) the number those w bytes spell
\* big-endian, modulo 2^32.
C25_CountersReadTheirWidth ==
    [][\A p \in Probes :
          (pc[p] = "rec_body" /\ Len(writes'[p]) = Len(writes[p]) + 1)
          => \A k \in 1..Len(Fields(p)) :
                LET f == Fields(p)[k]
                    r == Last(writes'[p]).rec
                    v == Low32(buffer[p], recordPtr[p] + OffsetOf(Fields(p), k), f.length)
                IN  (\A i \in 1..Len(Fields(p)) : Fields(p)[i].type = f.type => i = k)
                    => /\ f.type = 1 => r.ByteCount = v
                       /\ f.type = 2 => r.PacketCount = v]_vars

(* C27 *)

\* the types the field switch has a case for that assigns
KnownTypes == {8, 12, 7, 11, 4, 2, 1}

RECURSIVE ReadAtOffsets(_, _, _, _, _, _)
\* fd after the fields k..Len(fields) of known type were read, each at the
\* offset that is the sum of the lengths of the fields before it
ReadAtOffsets(fields, k, buf, at, g, fd) ==
    IF k > Len(fields) THEN fd
    ELSE ReadAtOffsets(fields, k + 1, buf, at, g,
                       IF fields[k].type \in KnownTypes
                       THEN ProjectField(fd, fields[k].type, buf, at + OffsetOf(fields, k), g)
                       ELSE fd)

\* C27: the record handed to the sink is what reading the k-th field at the
\* record offset sum of the lengths of the k-1 fields before it gives, for the
\* fields of known type in template order; a field of another type changes
\* no attribute.
C27_FieldsReadAtDeclaredOffsets ==
    [][\A p \in Probes :
          (pc[p] = "rec_body" /\ Len(writes'[p]) = Len(writes[p]) + 1)
          => \E g \in Garbage :
                Last(writes'[p]).rec =
                   [ReadAtOffsets(Fields(p), 1, buffer[p], recordPtr[p], g,
                                  NewFlowData(junk[p]))
                       EXCEPT !.SourceSond = ProbeName[p]]]_vars

\* under <<(99,3), (7,4), (4,1)>> the record 01 02 03 01 BB 00 00 06 was written
\* with port 443 and protocol 6
C27_Witness ==
    \E p \in Probes :
        /\ cur[p].k = 21
        /\ Len(writes[p]) > wBefore[p]
        /\ templates[p][256] = FU
        /\ Last(writes[p]).rec.SourcePort = 443
        /\ Last(writes[p]).rec.Protocol = 6

(* C23 *)

\* the record sets of the catalog that were encoded under a template of the
\* natural widths, by the number of their datagram
RoundTrips == (22 :> [fields |-> FIP, recs |-> RIP]) @@
              (23 :> [fields |-> FCnt, recs |-> RCnt]) @@
              (24 :> [fields |-> FPorts, recs |-> RPorts]) @@
              (25 :> [fields |-> FProto, recs |-> RProto])

\* the written record w and the exporter's record r agree in the attributes
\* the template projects
SameProjected(w, r, fields) ==
    \A i \in 1..Len(fields) :
        CASE fields[i].type = 8  -> w.SourceIP = r.SourceIP
          [] fields[i].type = 12 -> w.DestinationIP = r.DestinationIP
          [] fields[i].type = 7  -> w.SourcePort = r.SourcePort
          [] fields[i].type = 11 -> w.DestinationPort = r.DestinationPort
          [] fields[i].type = 4  -> w.Protocol = r.Protocol
          [] fields[i].type = 2  -> w.PacketCount = r.PacketCount
          [] fields[i].type = 1  -> w.ByteCount = r.ByteCount

\* C23: once a datagram that carries a template of the natural widths and a
\* record set R encoded under it is decoded, the records written for it are
\* those of R, in order and as many, equal to them in every attribute the
\* template projects.
C23_RoundTrip ==
    \A p \in Probes :
        (Returned(p) /\ cur[p].k \in DOMAIN RoundTrips /\ Len(writes[p]) < MaxWrites)
        => LET rt == RoundTrips[cur[p].k] IN
           /\ Written(p) = Len(rt.recs)
           /\ \A i \in 1..Len(rt.recs) :
                 SameProjected(writes[p][wBefore[p] + i].rec, rt.recs[i], rt.fields)

\* the record of ports and protocol came back, and its three bytes of padding
\* made no second one
C23_Witness ==
    \E p \in Probes :
        /\ Returned(p)
        /\ cur[p].k = 25
        /\ Written(p) = 1
        /\ Last(writes[p]).rec.SourcePort = 53
        /\ Last(writes[p]).rec.DestinationPort = 4660
        /\ Last(writes[p]).rec.Protocol = 17

(* C29 *)

\* the receive buffer of probe p as it would be had the bytes after the n
\* received ones all been x
Received(p, x) == [i \in 1..BufSize |-> IF i <= n[p] THEN buffer[p][i] ELSE x]

\* values the bytes left in the buffer may have been
Left == {0, 255}

\* C29: what a step of the decoder installs in the template table or hands to
\* the sink is determined by the bytes received in this datagram, the probe's
\* name and the probe's table: it is the same whatever bytes lie in the
\* receive buffer after the received ones.
C29_EffectOfReceivedBytesOnly ==
    [][\A p \in Probes : \A x \in Left :
          /\ (pc[p] = "tpl" /\ templatePtr'[p] # templatePtr[p])
                => \E g \in Garbage :
                     templates'[p] = Install(Table(p),
                                             TemplateIDAt(Received(p, x), templatePtr[p], g),
                                             FieldsAt(Received(p, x), templatePtr[p], g))
          /\ (pc[p] = "rec_body" /\ Len(writes'[p]) = Len(writes[p]) + 1)
                => \E g \in Garbage :
                     Last(writes'[p]).rec =
                        Materialize(p, Fields(p), Received(p, x), recordPtr[p], g, junk[p])]_vars

----------------------------------------------------------------------------
(* The database handlers, one taken by itself: SQLiteHandler, MySQLHandler   *)
(* and CSVHandler under any sequence of checkConnection, connect and close.  *)

\* the storage does not exist
NoFile == <<"(no file)">>
\* the line CSVHandler::connect writes to a file it creates
Header ==
    "SourceIP,DestinationIP,SourcePort,DestinationPort,Protocol,PacketCount,ByteCount,FlowStart,FlowEnd,SourceSond"
\* what a database holds once initializeTable has found or made the table
Table0 == <<"NetFlowData">>

\* everything of the collector but the handler
Collector == <<pc, buffer, n, source, ptr, length, flowsetID, flowsetLength, templatePtr,
               recordPtr, junk, templates, writes, diag, cur, tplBefore, wBefore, prev,
               tplHead, readMax, received, run, mainPc, exitCode, sondaConfigs, setup,
               lost, diagFile, diagFileMutex, crashed>>

\* a handler as its constructor leaves it (db(nullptr), conn(nullptr)), over
\* storage store: a CSV file is NoFile or its lines, a database is <<>> or Table0
Handler(type, store) ==
    [type |-> type,
     conn |-> 0,
     acquired |-> 0,
     releases |-> [h \in 1..MaxCalls |-> 0],
     store |-> store,
     before |-> store,
     calls |-> <<>>,
     dead |-> FALSE]

Handlers ==
    {Handler("csv", st) : st \in {NoFile, <<>>, <<Header>>}}
        \cup {Handler(t, st) : t \in {"sqlite", "mysql"}, st \in {<<>>, Table0}}

SinkInit ==
    /\ Quiet
    /\ run = 1
    /\ dbHandler \in Handlers

\* the handler can take one more call
Callable(type) ==
    /\ dbHandler.type = type
    /\ ~dbHandler.dead
    /\ Len(dbHandler.calls) < MaxCalls

\* the call op has returned ok, leaving the handler as h
Returns(h, op, ok) == [h EXCEPT !.calls = Append(@, [op |-> op, ok |-> ok])]

\* sqlite3_open / mysql_init: a new handle is what the pointer holds
Acquire(h) == [h EXCEPT !.acquired = @ + 1, !.conn = h.acquired + 1]

\* sqlite3_close(db) / mysql_close(conn) on what the pointer holds
Release(h) == [h EXCEPT !.releases[h.conn] = @ + 1]

\* db = nullptr / conn = nullptr
Null(h) == [h EXCEPT !.conn = 0]

\* the handle the pointer holds has been released before
Dangling(h) == h.conn # 0 /\ h.releases[h.conn] > 0

\* SQLiteHandler::connect: sqlite3_open, then initializeTable
SQLiteConnect ==
    /\ Callable("sqlite")
    /\ \E opens \in BOOLEAN, creates \in BOOLEAN :
         LET h == Acquire(dbHandler) IN
         dbHandler' =
            IF ~opens THEN Returns(h, "connect", FALSE)
            ELSE IF h.store = Table0 THEN Returns(h, "connect", TRUE)
            ELSE IF creates THEN Returns([h EXCEPT !.store = Table0], "connect", TRUE)
            ELSE Returns(h, "connect", FALSE)
    /\ UNCHANGED Collector

\* SQLiteHandler::checkConnection
SQLiteCheckConnection ==
    /\ Callable("sqlite")
    /\ \E opens \in BOOLEAN :
         LET h == Acquire(dbHandler) IN
         dbHandler' =
            IF ~opens THEN Returns(h, "checkConnection", FALSE)
            ELSE Returns(Null(Release(h)), "checkConnection", TRUE)
    /\ UNCHANGED Collector

\* if (p) { close(p); p = nullptr; } of SQLiteHandler::close and
\* MySQLHandler::close. Releasing a handle a second time is undefined: the
\* process may die of it.
ClosePointer(h, dies) ==
    IF h.conn = 0 THEN Returns(h, "close", TRUE)
    ELSE [Returns(Null(Release(h)), "close", TRUE) EXCEPT !.dead = dies]

\* SQLiteHandler::close
SQLiteClose ==
    /\ Callable("sqlite")
    /\ \E dies \in BOOLEAN :
         /\ dies => Dangling(dbHandler)
         /\ dbHandler' = ClosePointer(dbHandler, dies)
    /\ UNCHANGED Collector

\* what the server may do to a connection attempt: mysql_init returns
\* nullptr, mysql_real_connect fails, or the connection is made
Attempts == {"no handle", "refused", "connected"}

\* conn = mysql_init(nullptr), mysql_real_connect and, where that fails,
\* mysql_close(conn) with conn left as it is
MySQLReach(h, attempt) ==
    CASE attempt = "no handle" -> Null(h)
      [] attempt = "refused"   -> Release(Acquire(h))
      [] attempt = "connected" -> Acquire(h)

\* MySQLHandler::connect: then initializeTable, which makes no table
MySQLConnect ==
    /\ Callable("mysql")
    /\ \E attempt \in Attempts :
         LET h == MySQLReach(dbHandler, attempt) IN
         dbHandler' = Returns(h, "connect", attempt = "connected" /\ h.store = Table0)
    /\ UNCHANGED Collector

\* MySQLHandler::checkConnection
MySQLCheckConnection ==
    /\ Callable("mysql")
    /\ \E attempt \in Attempts :
         LET h == MySQLReach(dbHandler, attempt) IN
         dbHandler' =
            IF attempt # "connected" THEN Returns(h, "checkConnection", FALSE)
            ELSE Returns(Null(Release(h)), "checkConnection", TRUE)
    /\ UNCHANGED Collector

\* MySQLHandler::close
MySQLClose ==
    /\ Callable("mysql")
    /\ \E dies \in BOOLEAN :
         /\ dies => Dangling(dbHandler)
         /\ dbHandler' = ClosePointer(dbHandler, dies)
    /\ UNCHANGED Collector

\* CSVHandler::connect: std::ifstream file(csvPath); if (!file.good()) the
\* file is made with the header line
CSVConnect ==
    /\ Callable("csv")
    /\ \E creates \in BOOLEAN :
         dbHandler' =
            IF dbHandler.store # NoFile THEN Returns(dbHandler, "connect", TRUE)
            ELSE IF creates
                 THEN Returns([dbHandler EXCEPT !.store = <<Header>>], "connect", TRUE)
                 ELSE Returns(dbHandler, "connect", FALSE)
    /\ UNCHANGED Collector

\* CSVHandler::checkConnection: std::ofstream outFile(csvPath, std::ios::app)
\* makes the file where there is none
CSVCheckConnection ==
    /\ Callable("csv")
    /\ \E opens \in BOOLEAN :
         dbHandler' =
            IF ~opens THEN Returns(dbHandler, "checkConnection", FALSE)
            ELSE IF dbHandler.store = NoFile
                 THEN Returns([dbHandler EXCEPT !.store = <<>>], "checkConnection", TRUE)
                 ELSE Returns(dbHandler, "checkConnection", TRUE)
    /\ UNCHANGED Collector

\* CSVHandler::close does nothing
CSVClose ==
    /\ Callable("csv")
    /\ dbHandler' = Returns(dbHandler, "close", TRUE)
    /\ UNCHANGED Collector

SinkNext ==
    \/ SQLiteConnect
    \/ SQLiteCheckConnection
    \/ SQLiteClose
    \/ MySQLConnect
    \/ MySQLCheckConnection
    \/ MySQLClose
    \/ CSVConnect
    \/ CSVCheckConnection
    \/ CSVClose

SinkSpec == SinkInit /\ [][SinkNext]_vars

(* C22 *)

\* C22: whatever calls were made on a handler and however they returned, no
\* handle it acquired has been released more than once.
C22_CloseIdempotent ==
    \A h \in 1..MaxCalls : dbHandler.releases[h] <= 1

(* C28 *)

\* the calls made so far begin with those of --checkdb, both having succeeded
CheckedThenOpened ==
    /\ Len(dbHandler.calls) >= 2
    /\ dbHandler.calls[1] = [op |-> "checkConnection", ok |-> TRUE]
    /\ dbHandler.calls[2] = [op |-> "connect", ok |-> TRUE]

\* only checkConnection has been called so far
OnlyChecked ==
    \A i \in 1..Len(dbHandler.calls) : dbHandler.calls[i].op = "checkConnection"

\* C28: on a CSV sink, while only checkConnection has been called the file is
\* as it was before; and once checkConnection and then connect have succeeded
\* on a file that did not exist, the file exists and its first line is the
\* header line.
C28_CheckDbLeavesHeader ==
    dbHandler.type = "csv"
    => /\ OnlyChecked => dbHandler.store = dbHandler.before
       /\ (dbHandler.before = NoFile /\ CheckedThenOpened)
             => /\ dbHandler.store # NoFile
                /\ dbHandler.store # <<>>
                /\ Head(dbHandler.store) = Header

====
